---------------------------- MODULE Spec2Model ----------------------------
(***************************************************************************)
(* Heads-up No-Limit Hold'em engine of terminal-poker: the betting state   *)
(* machine (game/state.rs), the legality snapshot (game/actions.rs), the   *)
(* deck (game/deck.rs) and the hand evaluator (game/hand.rs), and the UI   *)
(* driver around them (ui/app.rs, the loop of main.rs): app holds the      *)
(* fields of App besides game_state, loop_pc the position of run_game_loop *)
(* within its iteration.                                                   *)
(*                                                                         *)
(* u32 values are kept as integers in the window (-2^31, 2^31): a          *)
(* non-negative integer stands for itself and a negative integer -k for    *)
(* the u32 value 2^32 - k, so that ordinary + and - are the wrapping       *)
(* operations and U32Lt is the unsigned order.                             *)
(***************************************************************************)
EXTENDS Integers, Sequences, FiniteSets, TLC

VARIABLES phase, deck, player_cards, bot_cards, board, pot,
          player_stack, bot_stack, player_bet, bot_bet, to_act, button,
          last_aggressor, last_raise_size, hand_number, starting_stack,
          hands_played, hands_won, biggest_pot_won, biggest_pot_lost,
          last_action, showdown_result, actions_this_street,
          overflow_checks, panicked,
          app, loop_pc

vars == <<phase, deck, player_cards, bot_cards, board, pot,
          player_stack, bot_stack, player_bet, bot_bet, to_act, button,
          last_aggressor, last_raise_size, hand_number, starting_stack,
          hands_played, hands_won, biggest_pot_won, biggest_pot_lost,
          last_action, showdown_result, actions_this_street,
          overflow_checks, panicked,
          app, loop_pc>>

---------------------------------------------------------------------------
(* Bounds of the model.                                                    *)

\* starting_stack_bb values tried by Init: 1..MaxStackBB big blinds
MaxStackBB == 2
\* start_new_hand is taken while hand_number < MaxHands
MaxHands == 2
\* pots tried by the white-box showdown states: 1..MaxPot and TestPot
MaxPot == 6
\* number of distinct deck orders Deck::shuffle may produce
NumShuffles == 3
\* the driver submits an action while actions_this_street < MaxStreetActions
MaxStreetActions == 5

---------------------------------------------------------------------------
(* Program constants.                                                      *)

BIG_BLIND == 2
SMALL_BLIND == 1
U8_MAX == 255

None == <<>>
Some(x) == <<x>>
IsSome(o) == Len(o) = 1
Unwrap(o) == o[1]

---------------------------------------------------------------------------
(* u32 arithmetic.                                                         *)

U32Lt(a, b) == IF (a < 0) = (b < 0) THEN a < b ELSE b < 0
U32Min(a, b) == IF U32Lt(b, a) THEN b ELSE a
U32Max(a, b) == IF U32Lt(a, b) THEN b ELSE a
\* a - b leaves the u32 range (panics when overflow checks are compiled in)
SubOverflows(a, b) == U32Lt(a, b)

---------------------------------------------------------------------------
(* Player, Action.                                                         *)

Players == {"Human", "Bot"}

opponent(p) == IF p = "Human" THEN "Bot" ELSE "Human"

Fold == [kind |-> "Fold", amount |-> 0]
Check == [kind |-> "Check", amount |-> 0]
Call(a) == [kind |-> "Call", amount |-> a]
Bet(a) == [kind |-> "Bet", amount |-> a]
Raise(a) == [kind |-> "Raise", amount |-> a]
AllIn(a) == [kind |-> "AllIn", amount |-> a]

BettingPhases == {"Preflop", "Flop", "Turn", "River"}

---------------------------------------------------------------------------
(* Card and Deck (game/deck.rs).                                           *)

Suits == <<"Spades", "Hearts", "Diamonds", "Clubs">>
RankALL == <<2, 3, 4, 5, 6, 7, 8, 9, 10, 11, 12, 13, 14>>

Card(r, s) == [rank |-> r, suit |-> s]

\* Deck::new: suit-major, ranks ascending, index 0
DeckNew ==
    [cards |-> [k \in 1..52 |->
                  Card(RankALL[((k - 1) % 13) + 1], Suits[((k - 1) \div 13) + 1])],
     index |-> 0]

\* the i-th deck order the random shuffle may produce: a permutation of the
\* 52 cards (the stride is coprime to 52)
ShuffleStride(i) == LET a == (2 * i + 1) % 52 IN IF a % 13 = 0 THEN 1 ELSE a
ShuffleOffset(i) == (3 * i + 11) % 52

shuffle(d, i) ==
    [cards |-> [k \in 1..52 |->
                  d.cards[((ShuffleStride(i) * (k - 1) + ShuffleOffset(i)) % 52) + 1]],
     index |-> 0]

\* Deck::deal_n: the cards dealt (fewer when the deck runs out)
deal_n_cards(d, n) ==
    LET m == IF d.index + n <= Len(d.cards) THEN n ELSE Len(d.cards) - d.index
    IN  [k \in 1..m |-> d.cards[d.index + k]]

\* Deck::deal_n: the deck afterwards
deal_n_deck(d, n) ==
    [d EXCEPT !.index = IF d.index + n <= Len(d.cards) THEN d.index + n
                        ELSE Len(d.cards)]

\* deal that leaves the index where it is
deal_KeepsIndex(d) ==
    IF d.index < Len(d.cards)
      THEN [card |-> Some(d.cards[d.index + 1]), deck |-> d]
      ELSE [card |-> None, deck |-> d]

\* Deck::deal: the card at the index, if any, and the deck afterwards
deal(d) ==
    IF d.index < Len(d.cards)
      THEN [card |-> Some(d.cards[d.index + 1]), deck |-> [d EXCEPT !.index = d.index + 1]]
      ELSE [card |-> None, deck |-> d]

---------------------------------------------------------------------------
(* Hand evaluator (game/hand.rs).                                          *)

HighCard == 0
Pair == 1
TwoPair == 2
ThreeOfAKind == 3
Straight == 4
Flush == 5
FullHouse == 6
FourOfAKind == 7
StraightFlush == 8

HandEvaluation(r, k) == [rank |-> r, kickers |-> k]

\* Ord for i32-like values: -1 Less, 0 Equal, 1 Greater
IntCmp(a, b) == IF a < b THEN -1 ELSE IF a > b THEN 1 ELSE 0

\* Vec<Rank>::cmp: lexicographic, a proper prefix is Less
RECURSIVE KickersCmp(_, _)
KickersCmp(a, b) ==
    IF a = <<>> /\ b = <<>> THEN 0
    ELSE IF a = <<>> THEN -1
    ELSE IF b = <<>> THEN 1
    ELSE IF Head(a) # Head(b) THEN IntCmp(Head(a), Head(b))
    ELSE KickersCmp(Tail(a), Tail(b))

\* the comparator of max_by in evaluate_hand: rank, then kickers
EvalCmp(a, b) ==
    IF a.rank # b.rank THEN IntCmp(a.rank, b.rank)
    ELSE KickersCmp(a.kickers, b.kickers)

\* insert x into a descending sequence, after the elements equal to it
RECURSIVE InsertDesc(_, _)
InsertDesc(x, sorted) ==
    IF sorted = <<>> THEN <<x>>
    ELSE IF x > Head(sorted) THEN <<x>> \o sorted
    ELSE <<Head(sorted)>> \o InsertDesc(x, Tail(sorted))

\* sort_by(|a, b| b.cmp(a)): descending
RECURSIVE SortDesc(_)
SortDesc(seq) ==
    IF seq = <<>> THEN <<>>
    ELSE InsertDesc(seq[Len(seq)], SortDesc(SubSeq(seq, 1, Len(seq) - 1)))

\* Vec::dedup: drop consecutive repeats
RECURSIVE Dedup(_)
Dedup(seq) ==
    IF Len(seq) <= 1 THEN seq
    ELSE IF seq[1] = seq[2] THEN Dedup(Tail(seq))
    ELSE <<seq[1]>> \o Dedup(Tail(seq))

RanksOf(cards) == [i \in 1..Len(cards) |-> cards[i].rank]
RankCount(cards, r) == Cardinality({i \in 1..Len(cards) : cards[i].rank = r})
SuitCount(cards, s) == Cardinality({i \in 1..Len(cards) : cards[i].suit = s})
RankSetOf(cards) == {cards[i].rank : i \in 1..Len(cards)}

\* the ranks of a set, descending
RECURSIVE SetDesc(_)
SetDesc(S) ==
    IF S = {} THEN <<>>
    ELSE LET m == CHOOSE x \in S : \A y \in S : y <= x
         IN  <<m>> \o SetDesc(S \ {m})

\* first window of five whose ends differ by 4
RECURSIVE StraightWindow(_, _)
StraightWindow(sorted_ranks, i) ==
    IF i + 4 > Len(sorted_ranks) THEN None
    ELSE IF sorted_ranks[i] - sorted_ranks[i + 4] = 4 THEN Some(sorted_ranks[i])
    ELSE StraightWindow(sorted_ranks, i + 1)

\* check_straight that ranks the wheel by its ace
check_straight_AceHighWheel(sorted_ranks) ==
    LET values == {sorted_ranks[i] : i \in 1..Len(sorted_ranks)}
    IN  IF Len(sorted_ranks) < 5 THEN None
        ELSE IF {14, 2, 3, 4, 5} \subseteq values THEN Some(14)
        ELSE StraightWindow(sorted_ranks, 1)

check_straight(sorted_ranks) ==
    LET values == {sorted_ranks[i] : i \in 1..Len(sorted_ranks)}
    IN  IF Len(sorted_ranks) < 5 THEN None
        ELSE IF {14, 2, 3, 4, 5} \subseteq values THEN Some(5)
        ELSE StraightWindow(sorted_ranks, 1)

\* evaluate_five that looks for a flush before a straight flush
evaluate_five_FlushFirst(cards) ==
    LET is_flush == \E i \in 1..Len(cards) : SuitCount(cards, cards[i].suit) >= 5
        ranks == Dedup(SortDesc(RanksOf(cards)))
        straight_high == check_straight(ranks)
        quads == {r \in RankSetOf(cards) : RankCount(cards, r) = 4}
        tripset == {r \in RankSetOf(cards) : RankCount(cards, r) = 3}
        pairset == {r \in RankSetOf(cards) : RankCount(cards, r) = 2}
        sorted_pairs == SetDesc(pairset)
    IN  IF is_flush THEN HandEvaluation(Flush, ranks)
        ELSE IF is_flush /\ IsSome(straight_high)
          THEN HandEvaluation(StraightFlush, <<Unwrap(straight_high)>>)
        ELSE IF quads # {}
          THEN HandEvaluation(FourOfAKind, <<CHOOSE r \in quads : TRUE>>)
        ELSE IF tripset # {} /\ pairset # {}
          THEN HandEvaluation(FullHouse, <<CHOOSE r \in tripset : TRUE,
                                           CHOOSE r \in pairset : TRUE>>)
        ELSE IF IsSome(straight_high)
          THEN HandEvaluation(Straight, <<Unwrap(straight_high)>>)
        ELSE IF tripset # {}
          THEN HandEvaluation(ThreeOfAKind, <<CHOOSE r \in tripset : TRUE>>)
        ELSE IF Cardinality(pairset) >= 2 THEN HandEvaluation(TwoPair, sorted_pairs)
        ELSE IF Cardinality(pairset) = 1 THEN HandEvaluation(Pair, <<sorted_pairs[1]>>)
        ELSE HandEvaluation(HighCard, ranks)

evaluate_five(cards) ==
    LET is_flush == \E i \in 1..Len(cards) : SuitCount(cards, cards[i].suit) >= 5
        ranks == Dedup(SortDesc(RanksOf(cards)))
        straight_high == check_straight(ranks)
        quads == {r \in RankSetOf(cards) : RankCount(cards, r) = 4}
        tripset == {r \in RankSetOf(cards) : RankCount(cards, r) = 3}
        pairset == {r \in RankSetOf(cards) : RankCount(cards, r) = 2}
        sorted_pairs == SetDesc(pairset)
    IN  IF is_flush /\ IsSome(straight_high)
          THEN HandEvaluation(StraightFlush, <<Unwrap(straight_high)>>)
        ELSE IF quads # {}
          THEN HandEvaluation(FourOfAKind, <<CHOOSE r \in quads : TRUE>>)
        ELSE IF tripset # {} /\ pairset # {}
          THEN HandEvaluation(FullHouse, <<CHOOSE r \in tripset : TRUE,
                                           CHOOSE r \in pairset : TRUE>>)
        ELSE IF is_flush THEN HandEvaluation(Flush, ranks)
        ELSE IF IsSome(straight_high)
          THEN HandEvaluation(Straight, <<Unwrap(straight_high)>>)
        ELSE IF tripset # {}
          THEN HandEvaluation(ThreeOfAKind, <<CHOOSE r \in tripset : TRUE>>)
        ELSE IF Cardinality(pairset) >= 2 THEN HandEvaluation(TwoPair, sorted_pairs)
        ELSE IF Cardinality(pairset) = 1 THEN HandEvaluation(Pair, <<sorted_pairs[1]>>)
        ELSE HandEvaluation(HighCard, ranks)

\* evaluate_partial that keeps the high-card ranks in the order passed
evaluate_partial_Unsorted(cards) ==
    LET quads == {r \in RankSetOf(cards) : RankCount(cards, r) = 4}
        tripset == {r \in RankSetOf(cards) : RankCount(cards, r) = 3}
        pairset == {r \in RankSetOf(cards) : RankCount(cards, r) = 2}
        highest_paired_rank == IF pairset = {} THEN None ELSE Some(SetDesc(pairset)[1])
    IN  IF cards = <<>> THEN HandEvaluation(HighCard, <<>>)
        ELSE IF quads # {}
          THEN HandEvaluation(FourOfAKind, <<CHOOSE r \in quads : TRUE>>)
        ELSE IF tripset # {}
          THEN HandEvaluation(ThreeOfAKind, <<CHOOSE r \in tripset : TRUE>>)
        ELSE IF Cardinality(pairset) >= 2 THEN HandEvaluation(TwoPair, highest_paired_rank)
        ELSE IF Cardinality(pairset) = 1
          THEN HandEvaluation(Pair, <<Unwrap(highest_paired_rank)>>)
        ELSE HandEvaluation(HighCard, RanksOf(cards))

evaluate_partial(cards) ==
    LET quads == {r \in RankSetOf(cards) : RankCount(cards, r) = 4}
        tripset == {r \in RankSetOf(cards) : RankCount(cards, r) = 3}
        pairset == {r \in RankSetOf(cards) : RankCount(cards, r) = 2}
        highest_paired_rank == IF pairset = {} THEN None ELSE Some(SetDesc(pairset)[1])
    IN  IF cards = <<>> THEN HandEvaluation(HighCard, <<>>)
        ELSE IF quads # {}
          THEN HandEvaluation(FourOfAKind, <<CHOOSE r \in quads : TRUE>>)
        ELSE IF tripset # {}
          THEN HandEvaluation(ThreeOfAKind, <<CHOOSE r \in tripset : TRUE>>)
        ELSE IF Cardinality(pairset) >= 2 THEN HandEvaluation(TwoPair, highest_paired_rank)
        ELSE IF Cardinality(pairset) = 1
          THEN HandEvaluation(Pair, <<Unwrap(highest_paired_rank)>>)
        ELSE HandEvaluation(HighCard, SortDesc(RanksOf(cards)))

\* combinations(cards, k), in the order the nested loops push them
RECURSIVE combinations(_, _), CombosFrom(_, _, _)
combinations(cards, k) ==
    IF k = 0 THEN << <<>> >>
    ELSE IF Len(cards) < k THEN <<>>
    ELSE CombosFrom(cards, k, 1)

CombosFrom(cards, k, i) ==
    IF i > Len(cards) THEN <<>>
    ELSE LET rest == combinations(SubSeq(cards, i + 1, Len(cards)), k - 1)
         IN  [j \in 1..Len(rest) |-> <<cards[i]>> \o rest[j]]
             \o CombosFrom(cards, k, i + 1)

\* Iterator::max_by: the last of the maximal elements
RECURSIVE MaxBy(_, _, _)
MaxBy(evals, i, best) ==
    IF i > Len(evals) THEN best
    ELSE MaxBy(evals, i + 1,
               IF EvalCmp(best, evals[i]) = 1 THEN best ELSE evals[i])

\* evaluate_hand that keeps the first combination's evaluation
evaluate_hand_FirstCombo(hole_cards, board_cards) ==
    LET all_cards == hole_cards \o board_cards
        combos == combinations(all_cards, 5)
    IN  IF Len(all_cards) < 5 THEN evaluate_partial(all_cards)
        ELSE evaluate_five(combos[1])

\* evaluate_hand that looks for the flush and the straight among all the
\* cards at once
evaluate_hand_AllAtOnce(hole_cards, board_cards) ==
    LET all_cards == hole_cards \o board_cards
    IN  IF Len(all_cards) < 5 THEN evaluate_partial(all_cards)
        ELSE evaluate_five(all_cards)

evaluate_hand(hole_cards, board_cards) ==
    LET all_cards == hole_cards \o board_cards
        combos == combinations(all_cards, 5)
        evals == [j \in 1..Len(combos) |-> evaluate_five(combos[j])]
    IN  IF Len(all_cards) < 5 THEN evaluate_partial(all_cards)
        ELSE IF Len(evals) = 0 THEN HandEvaluation(HighCard, <<>>)
        ELSE MaxBy(evals, 2, evals[1])

---------------------------------------------------------------------------
(* GameState (game/state.rs) as a record, and its methods as operators.    *)

\* the current GameState, with the two facts about the running process:
\* whether arithmetic overflow checks are compiled in, and whether a panic
\* has ended it
Self ==
    [phase |-> phase, deck |-> deck, player_cards |-> player_cards,
     bot_cards |-> bot_cards, board |-> board, pot |-> pot,
     player_stack |-> player_stack, bot_stack |-> bot_stack,
     player_bet |-> player_bet, bot_bet |-> bot_bet, to_act |-> to_act,
     button |-> button, last_aggressor |-> last_aggressor,
     last_raise_size |-> last_raise_size, hand_number |-> hand_number,
     starting_stack |-> starting_stack, hands_played |-> hands_played,
     hands_won |-> hands_won, biggest_pot_won |-> biggest_pot_won,
     biggest_pot_lost |-> biggest_pot_lost, last_action |-> last_action,
     showdown_result |-> showdown_result,
     actions_this_street |-> actions_this_street,
     overflow_checks |-> overflow_checks, panicked |-> panicked]

\* the GameState of the next state is s
GameBecomes(s) ==
    /\ phase' = s.phase
    /\ deck' = s.deck
    /\ player_cards' = s.player_cards
    /\ bot_cards' = s.bot_cards
    /\ board' = s.board
    /\ pot' = s.pot
    /\ player_stack' = s.player_stack
    /\ bot_stack' = s.bot_stack
    /\ player_bet' = s.player_bet
    /\ bot_bet' = s.bot_bet
    /\ to_act' = s.to_act
    /\ button' = s.button
    /\ last_aggressor' = s.last_aggressor
    /\ last_raise_size' = s.last_raise_size
    /\ hand_number' = s.hand_number
    /\ starting_stack' = s.starting_stack
    /\ hands_played' = s.hands_played
    /\ hands_won' = s.hands_won
    /\ biggest_pot_won' = s.biggest_pot_won
    /\ biggest_pot_lost' = s.biggest_pot_lost
    /\ last_action' = s.last_action
    /\ showdown_result' = s.showdown_result
    /\ actions_this_street' = s.actions_this_street
    /\ overflow_checks' = s.overflow_checks
    /\ panicked' = s.panicked

\* the next state is s, reached by a call made on the GameState alone
Becomes(s) == GameBecomes(s) /\ UNCHANGED <<app, loop_pc>>

\* an arithmetic overflow panic: the process stops with the fields as they are
Panic(s) == [s EXCEPT !.panicked = TRUE]

\* the struct literal of GameState::new, before its call of start_new_hand
GameStateLiteral(starting_stack_bb, checks) ==
    [phase |-> "Preflop", deck |-> DeckNew, player_cards |-> <<>>,
     bot_cards |-> <<>>, board |-> <<>>, pot |-> 0,
     player_stack |-> starting_stack_bb * BIG_BLIND,
     bot_stack |-> starting_stack_bb * BIG_BLIND,
     player_bet |-> 0, bot_bet |-> 0, to_act |-> "Human", button |-> "Bot",
     last_aggressor |-> None, last_raise_size |-> BIG_BLIND, hand_number |-> 0,
     starting_stack |-> starting_stack_bb * BIG_BLIND, hands_played |-> 0,
     hands_won |-> 0, biggest_pot_won |-> 0, biggest_pot_lost |-> 0,
     last_action |-> None, showdown_result |-> None, actions_this_street |-> 0,
     overflow_checks |-> checks, panicked |-> FALSE]

\* the blinds of start_new_hand posted in full, whatever the stacks hold
PostBlinds_Uncapped(s) ==
    IF s.button = "Human"
    THEN [s EXCEPT !.player_stack = @ - SMALL_BLIND, !.player_bet = SMALL_BLIND,
                   !.bot_stack = @ - BIG_BLIND, !.bot_bet = BIG_BLIND,
                   !.pot = SMALL_BLIND + BIG_BLIND, !.to_act = "Human"]
    ELSE [s EXCEPT !.bot_stack = @ - SMALL_BLIND, !.bot_bet = SMALL_BLIND,
                   !.player_stack = @ - BIG_BLIND, !.player_bet = BIG_BLIND,
                   !.pot = SMALL_BLIND + BIG_BLIND, !.to_act = "Bot"]

\* the blinds of start_new_hand: the button posts the small blind
PostBlinds(s) ==
    IF s.button = "Human"
    THEN LET sb == U32Min(SMALL_BLIND, s.player_stack)
             bb == U32Min(BIG_BLIND, s.bot_stack)
         IN  [s EXCEPT !.player_stack = @ - sb, !.player_bet = sb,
                       !.bot_stack = @ - bb, !.bot_bet = bb,
                       !.pot = sb + bb, !.to_act = "Human"]
    ELSE LET sb == U32Min(SMALL_BLIND, s.bot_stack)
             bb == U32Min(BIG_BLIND, s.player_stack)
         IN  [s EXCEPT !.bot_stack = @ - sb, !.bot_bet = sb,
                       !.player_stack = @ - bb, !.player_bet = bb,
                       !.pot = sb + bb, !.to_act = "Bot"]

\* start_new_hand that leaves the button where it was
start_new_hand_KeepsButton(s, i) ==
    LET d0 == shuffle(DeckNew, i)
        d1 == deal_n_deck(d0, 2)
        d2 == deal_n_deck(d1, 2)
    IN  PostBlinds([s EXCEPT !.hand_number = @ + 1,
                             !.phase = "Preflop",
                             !.deck = d2,
                             !.player_cards = deal_n_cards(d0, 2),
                             !.bot_cards = deal_n_cards(d1, 2),
                             !.board = <<>>,
                             !.pot = 0,
                             !.player_bet = 0,
                             !.bot_bet = 0,
                             !.last_aggressor = None,
                             !.last_raise_size = BIG_BLIND,
                             !.last_action = None,
                             !.showdown_result = None,
                             !.actions_this_street = 0])

\* start_new_hand that keeps the showdown result of the previous hand
start_new_hand_KeepsResult(s, i) ==
    LET d0 == shuffle(DeckNew, i)
        d1 == deal_n_deck(d0, 2)
        d2 == deal_n_deck(d1, 2)
    IN  PostBlinds([s EXCEPT !.hand_number = @ + 1,
                             !.button = opponent(@),
                             !.phase = "Preflop",
                             !.deck = d2,
                             !.player_cards = deal_n_cards(d0, 2),
                             !.bot_cards = deal_n_cards(d1, 2),
                             !.board = <<>>,
                             !.pot = 0,
                             !.player_bet = 0,
                             !.bot_bet = 0,
                             !.last_aggressor = None,
                             !.last_raise_size = BIG_BLIND,
                             !.last_action = None,
                             !.actions_this_street = 0])

\* start_new_hand that starts the count of hands won afresh
start_new_hand_ResetsWon(s, i) ==
    LET d0 == shuffle(DeckNew, i)
        d1 == deal_n_deck(d0, 2)
        d2 == deal_n_deck(d1, 2)
    IN  PostBlinds([s EXCEPT !.hand_number = @ + 1,
                             !.button = opponent(@),
                             !.phase = "Preflop",
                             !.deck = d2,
                             !.player_cards = deal_n_cards(d0, 2),
                             !.bot_cards = deal_n_cards(d1, 2),
                             !.board = <<>>,
                             !.pot = 0,
                             !.player_bet = 0,
                             !.bot_bet = 0,
                             !.last_aggressor = None,
                             !.last_raise_size = BIG_BLIND,
                             !.last_action = None,
                             !.showdown_result = None,
                             !.actions_this_street = 0,
                             !.hands_won = 0])

\* start_new_hand, with shuffle producing the i-th deck order
start_new_hand(s, i) ==
    LET d0 == shuffle(DeckNew, i)
        d1 == deal_n_deck(d0, 2)
        d2 == deal_n_deck(d1, 2)
    IN  PostBlinds([s EXCEPT !.hand_number = @ + 1,
                             !.button = opponent(@),
                             !.phase = "Preflop",
                             !.deck = d2,
                             !.player_cards = deal_n_cards(d0, 2),
                             !.bot_cards = deal_n_cards(d1, 2),
                             !.board = <<>>,
                             !.pot = 0,
                             !.player_bet = 0,
                             !.bot_bet = 0,
                             !.last_aggressor = None,
                             !.last_raise_size = BIG_BLIND,
                             !.last_action = None,
                             !.showdown_result = None,
                             !.actions_this_street = 0])

GameStateNew(starting_stack_bb, checks, i) ==
    start_new_hand(GameStateLiteral(starting_stack_bb, checks), i)

stack_of(s, player) == IF player = "Human" THEN s.player_stack ELSE s.bot_stack

current_bet(s, player) == IF player = "Human" THEN s.player_bet ELSE s.bot_bet

max_bet(s) == U32Max(s.player_bet, s.bot_bet)

\* add_chips that forgets to put the chips into the pot
add_chips_NoPot(s, player, amount) ==
    IF player = "Human"
    THEN LET actual == U32Min(amount, s.player_stack)
         IN  [s EXCEPT !.player_stack = @ - actual, !.player_bet = @ + actual]
    ELSE LET actual == U32Min(amount, s.bot_stack)
         IN  [s EXCEPT !.bot_stack = @ - actual, !.bot_bet = @ + actual]

\* add_chips that takes the amount asked for, whatever the stack holds
add_chips_Uncapped(s, player, amount) ==
    IF player = "Human"
    THEN [s EXCEPT !.player_stack = @ - amount, !.player_bet = @ + amount,
                   !.pot = @ + amount]
    ELSE [s EXCEPT !.bot_stack = @ - amount, !.bot_bet = @ + amount,
                   !.pot = @ + amount]

add_chips(s, player, amount) ==
    IF player = "Human"
    THEN LET actual == U32Min(amount, s.player_stack)
         IN  [s EXCEPT !.player_stack = @ - actual, !.player_bet = @ + actual,
                       !.pot = @ + actual]
    ELSE LET actual == U32Min(amount, s.bot_stack)
         IN  [s EXCEPT !.bot_stack = @ - actual, !.bot_bet = @ + actual,
                       !.pot = @ + actual]

\* handle_fold that pays the pot to the folder
handle_fold_PaysFolder(s, folder) ==
    LET p == s.pot
        paid == IF folder = "Human"
                THEN [s EXCEPT !.player_stack = @ + p, !.hands_won = @ + 1,
                               !.biggest_pot_won = IF p > @ THEN p ELSE @]
                ELSE [s EXCEPT !.bot_stack = @ + p,
                               !.biggest_pot_lost = IF p > @ THEN p ELSE @]
    IN  [paid EXCEPT !.pot = 0, !.hands_played = @ + 1, !.phase = "HandComplete"]

handle_fold(s, folder) ==
    LET winner == opponent(folder)
        p == s.pot
        paid == IF winner = "Human"
                THEN [s EXCEPT !.player_stack = @ + p, !.hands_won = @ + 1,
                               !.biggest_pot_won = IF p > @ THEN p ELSE @]
                ELSE [s EXCEPT !.bot_stack = @ + p,
                               !.biggest_pot_lost = IF p > @ THEN p ELSE @]
    IN  [paid EXCEPT !.pot = 0, !.hands_played = @ + 1, !.phase = "HandComplete"]

\* is_betting_round_complete without the big blind's option on Preflop
is_betting_round_complete_NoOption(s) ==
    IF s.player_stack = 0 \/ s.bot_stack = 0 THEN s.player_bet = s.bot_bet
    ELSE IF s.player_bet # s.bot_bet THEN FALSE
    ELSE IF s.phase # "Preflop" /\ s.last_aggressor = None
      THEN s.actions_this_street >= 2
    ELSE TRUE

\* is_betting_round_complete content with one action on an unbet street
is_betting_round_complete_OneAction(s) ==
    IF s.player_stack = 0 \/ s.bot_stack = 0 THEN s.player_bet = s.bot_bet
    ELSE IF s.player_bet # s.bot_bet THEN FALSE
    ELSE IF s.phase = "Preflop" /\ s.last_aggressor = None
      THEN s.last_action = Some(<<opponent(s.button), Check>>)
    ELSE IF s.last_aggressor = None THEN s.actions_this_street >= 1
    ELSE TRUE

\* is_betting_round_complete without the all-in case
is_betting_round_complete_NoAllIn(s) ==
    IF s.player_bet # s.bot_bet THEN FALSE
    ELSE IF s.phase = "Preflop" /\ s.last_aggressor = None
      THEN s.last_action = Some(<<opponent(s.button), Check>>)
    ELSE IF s.last_aggressor = None THEN s.actions_this_street >= 2
    ELSE TRUE

\* is_betting_round_complete with an all-in always closing the round
is_betting_round_complete_AllInCloses(s) ==
    IF s.player_stack = 0 \/ s.bot_stack = 0 THEN TRUE
    ELSE IF s.player_bet # s.bot_bet THEN FALSE
    ELSE IF s.phase = "Preflop" /\ s.last_aggressor = None
      THEN s.last_action = Some(<<opponent(s.button), Check>>)
    ELSE IF s.last_aggressor = None THEN s.actions_this_street >= 2
    ELSE TRUE

is_betting_round_complete(s) ==
    IF s.player_stack = 0 \/ s.bot_stack = 0 THEN s.player_bet = s.bot_bet
    ELSE IF s.player_bet # s.bot_bet THEN FALSE
    ELSE IF s.phase = "Preflop" /\ s.last_aggressor = None
      THEN s.last_action = Some(<<opponent(s.button), Check>>)
    ELSE IF s.last_aggressor = None THEN s.actions_this_street >= 2
    ELSE TRUE

\* the comparison of resolve_showdown with the two outcomes exchanged
showdown_winner_Reversed(player_eval, bot_eval) ==
    IF player_eval.rank > bot_eval.rank THEN Some("Bot")
    ELSE IF player_eval.rank < bot_eval.rank THEN Some("Human")
    ELSE LET c == KickersCmp(player_eval.kickers, bot_eval.kickers)
         IN  IF c = 1 THEN Some("Bot")
             ELSE IF c = -1 THEN Some("Human")
             ELSE None

\* the winner of the comparison in resolve_showdown
showdown_winner(player_eval, bot_eval) ==
    IF player_eval.rank > bot_eval.rank THEN Some("Human")
    ELSE IF player_eval.rank < bot_eval.rank THEN Some("Bot")
    ELSE LET c == KickersCmp(player_eval.kickers, bot_eval.kickers)
         IN  IF c = 1 THEN Some("Human")
             ELSE IF c = -1 THEN Some("Bot")
             ELSE None

ShowdownResult(w, pe, be, p) ==
    [winner |-> w, player_hand |-> pe, bot_hand |-> be, pot_won |-> p]

\* resolve_showdown giving the odd chip of a split pot to the button
resolve_showdown_OddChipToButton(s) ==
    LET player_eval == evaluate_hand(s.player_cards, s.board)
        bot_eval == evaluate_hand(s.bot_cards, s.board)
        winner == showdown_winner(player_eval, bot_eval)
        p == s.pot
        half == p \div 2
        remainder == p % 2
        paid == IF winner = Some("Human")
                  THEN [s EXCEPT !.player_stack = @ + p, !.hands_won = @ + 1,
                                 !.biggest_pot_won = IF p > @ THEN p ELSE @]
                ELSE IF winner = Some("Bot")
                  THEN [s EXCEPT !.bot_stack = @ + p,
                                 !.biggest_pot_lost = IF p > @ THEN p ELSE @]
                ELSE IF s.button = "Human"
                  THEN [s EXCEPT !.player_stack = @ + half + remainder,
                                 !.bot_stack = @ + half]
                ELSE [s EXCEPT !.player_stack = @ + half,
                               !.bot_stack = @ + half + remainder]
    IN  [paid EXCEPT !.showdown_result =
                         Some(ShowdownResult(winner, player_eval, bot_eval, p)),
                     !.pot = 0, !.hands_played = @ + 1, !.phase = "Showdown"]

resolve_showdown(s) ==
    LET player_eval == evaluate_hand(s.player_cards, s.board)
        bot_eval == evaluate_hand(s.bot_cards, s.board)
        winner == showdown_winner(player_eval, bot_eval)
        p == s.pot
        half == p \div 2
        remainder == p % 2
        paid == IF winner = Some("Human")
                  THEN [s EXCEPT !.player_stack = @ + p, !.hands_won = @ + 1,
                                 !.biggest_pot_won = IF p > @ THEN p ELSE @]
                ELSE IF winner = Some("Bot")
                  THEN [s EXCEPT !.bot_stack = @ + p,
                                 !.biggest_pot_lost = IF p > @ THEN p ELSE @]
                ELSE IF s.button = "Human"
                  THEN [s EXCEPT !.player_stack = @ + half,
                                 !.bot_stack = @ + half + remainder]
                ELSE [s EXCEPT !.player_stack = @ + half + remainder,
                               !.bot_stack = @ + half]
    IN  [paid EXCEPT !.showdown_result =
                         Some(ShowdownResult(winner, player_eval, bot_eval, p)),
                     !.pot = 0, !.hands_played = @ + 1, !.phase = "Showdown"]

\* advance_phase giving the first action of the new street to the button
advance_phase_ButtonFirst(s) ==
    LET r == [s EXCEPT !.player_bet = 0, !.bot_bet = 0, !.last_aggressor = None,
                       !.actions_this_street = 0]
        n == IF r.phase = "Preflop" THEN 3 ELSE 1
        next_phase == IF r.phase = "Preflop" THEN "Flop"
                      ELSE IF r.phase = "Flop" THEN "Turn" ELSE "River"
    IN  IF r.phase \in {"Preflop", "Flop", "Turn"}
          THEN [r EXCEPT !.board = @ \o deal_n_cards(r.deck, n),
                         !.deck = deal_n_deck(r.deck, n),
                         !.phase = next_phase,
                         !.to_act = r.button]
        ELSE IF r.phase = "River" THEN resolve_showdown(r)
        ELSE r

\* advance_phase that carries the street bets over to the next street
advance_phase_KeepsBets(s) ==
    LET r == [s EXCEPT !.last_aggressor = None, !.actions_this_street = 0]
        n == IF r.phase = "Preflop" THEN 3 ELSE 1
        next_phase == IF r.phase = "Preflop" THEN "Flop"
                      ELSE IF r.phase = "Flop" THEN "Turn" ELSE "River"
    IN  IF r.phase \in {"Preflop", "Flop", "Turn"}
          THEN [r EXCEPT !.board = @ \o deal_n_cards(r.deck, n),
                         !.deck = deal_n_deck(r.deck, n),
                         !.phase = next_phase,
                         !.to_act = opponent(r.button)]
        ELSE IF r.phase = "River" THEN resolve_showdown(r)
        ELSE r

advance_phase(s) ==
    LET r == [s EXCEPT !.player_bet = 0, !.bot_bet = 0, !.last_aggressor = None,
                       !.actions_this_street = 0]
        n == IF r.phase = "Preflop" THEN 3 ELSE 1
        next_phase == IF r.phase = "Preflop" THEN "Flop"
                      ELSE IF r.phase = "Flop" THEN "Turn" ELSE "River"
    IN  IF r.phase \in {"Preflop", "Flop", "Turn"}
          THEN [r EXCEPT !.board = @ \o deal_n_cards(r.deck, n),
                         !.deck = deal_n_deck(r.deck, n),
                         !.phase = next_phase,
                         !.to_act = opponent(r.button)]
        ELSE IF r.phase = "River" THEN resolve_showdown(r)
        ELSE r

\* the end of apply_action: advance the street or pass the turn
finish_action(s, player) ==
    IF is_betting_round_complete(s) THEN advance_phase(s)
    ELSE [s EXCEPT !.to_act = opponent(player)]

\* Bet(amount) | Raise(amount) arm of apply_action
apply_bet_or_raise(s, player, amount) ==
    LET cur == current_bet(s, player)
        to_add == amount - cur
        old_max == max_bet(s)
        s1 == [add_chips(s, player, to_add) EXCEPT !.last_aggressor = Some(player)]
    IN  IF s.overflow_checks /\ SubOverflows(amount, cur) THEN Panic(s)
        ELSE IF s.overflow_checks /\ SubOverflows(amount, old_max) THEN Panic(s1)
        ELSE finish_action([s1 EXCEPT !.last_raise_size = amount - old_max], player)

\* the AllIn arm recording the aggressor and the raise size unconditionally
apply_all_in_AlwaysRecords(s, player, amount) ==
    LET cur == current_bet(s, player)
        to_add == amount - cur
        old_max == max_bet(s)
        s1 == add_chips(s, player, to_add)
    IN  IF s.overflow_checks /\ SubOverflows(amount, cur) THEN Panic(s)
        ELSE IF s.overflow_checks /\ SubOverflows(amount, old_max) THEN Panic(s1)
        ELSE finish_action([s1 EXCEPT !.last_aggressor = Some(player),
                                      !.last_raise_size = amount - old_max],
                           player)

\* AllIn(amount) arm of apply_action
apply_all_in(s, player, amount) ==
    LET cur == current_bet(s, player)
        to_add == amount - cur
        old_max == max_bet(s)
        s1 == add_chips(s, player, to_add)
    IN  IF s.overflow_checks /\ SubOverflows(amount, cur) THEN Panic(s)
        ELSE IF U32Lt(old_max, amount)
          THEN finish_action([s1 EXCEPT !.last_aggressor = Some(player),
                                        !.last_raise_size = amount - old_max],
                             player)
        ELSE finish_action(s1, player)

apply_action(s, player, action) ==
    LET s0 == [s EXCEPT !.last_action = Some(<<player, action>>)]
        s1 == [s0 EXCEPT !.actions_this_street =
                            IF @ = U8_MAX THEN 0 ELSE @ + 1]
    IN  IF s.overflow_checks /\ s.actions_this_street = U8_MAX THEN Panic(s0)
        ELSE IF action.kind = "Fold" THEN handle_fold(s1, player)
        ELSE IF action.kind = "Check" THEN finish_action(s1, player)
        ELSE IF action.kind = "Call"
          THEN finish_action(add_chips(s1, player, action.amount), player)
        ELSE IF action.kind \in {"Bet", "Raise"}
          THEN apply_bet_or_raise(s1, player, action.amount)
        ELSE apply_all_in(s1, player, action.amount)

amount_to_call(s, player) ==
    LET current == current_bet(s, player)
        max == max_bet(s)
    IN  IF U32Lt(current, max) THEN max - current ELSE 0

\* AvailableActions::new offering the call that takes the whole stack
AvailableActionsNew_CallAtStack(to_call, min_raise_to, player_stack_, big_blind) ==
    LET can_check == to_call = 0
    IN  [can_fold |-> U32Lt(0, to_call),
         can_check |-> can_check,
         can_call |-> IF U32Lt(0, to_call) /\ ~U32Lt(player_stack_, to_call)
                      THEN Some(to_call) ELSE None,
         min_bet |-> IF can_check /\ U32Lt(0, player_stack_)
                     THEN Some(U32Min(big_blind, player_stack_)) ELSE None,
         min_raise |-> IF U32Lt(0, to_call) /\ U32Lt(min_raise_to, player_stack_)
                       THEN Some(min_raise_to) ELSE None,
         max_raise |-> player_stack_]

\* AvailableActions::new (game/actions.rs)
AvailableActionsNew(to_call, min_raise_to, player_stack_, big_blind) ==
    LET can_check == to_call = 0
    IN  [can_fold |-> U32Lt(0, to_call),
         can_check |-> can_check,
         can_call |-> IF U32Lt(0, to_call) /\ U32Lt(to_call, player_stack_)
                      THEN Some(to_call) ELSE None,
         min_bet |-> IF can_check /\ U32Lt(0, player_stack_)
                     THEN Some(U32Min(big_blind, player_stack_)) ELSE None,
         min_raise |-> IF U32Lt(0, to_call) /\ U32Lt(min_raise_to, player_stack_)
                       THEN Some(min_raise_to) ELSE None,
         max_raise |-> player_stack_]

available_actions(s) ==
    LET stack == stack_of(s, s.to_act)
        to_call == amount_to_call(s, s.to_act)
        min_raise_to == max_bet(s) + U32Max(s.last_raise_size, BIG_BLIND)
    IN  AvailableActionsNew(to_call, min_raise_to, stack, BIG_BLIND)

---------------------------------------------------------------------------
(* The driver: one action per turn, drawn from AvailableActions.           *)

\* the actions a driver may submit for the player to act: what
\* AvailableActions offers, with bets and raises below the all-in total and
\* the all-in itself
LegalActions(s) ==
    LET av == available_actions(s)
        all_in == current_bet(s, s.to_act) + av.max_raise
    IN  (IF av.can_fold THEN {Fold} ELSE {})
        \cup (IF av.can_check THEN {Check} ELSE {})
        \cup (IF IsSome(av.can_call) THEN {Call(Unwrap(av.can_call))} ELSE {})
        \cup (IF IsSome(av.min_bet)
              THEN {Bet(a) : a \in Unwrap(av.min_bet)..(all_in - 1)} ELSE {})
        \cup (IF IsSome(av.min_raise)
              THEN {Raise(a) : a \in Unwrap(av.min_raise)..(all_in - 1)} ELSE {})
        \cup (IF av.max_raise > 0 THEN {AllIn(all_in)} ELSE {})

GameIs(s) ==
    /\ phase = s.phase
    /\ deck = s.deck
    /\ player_cards = s.player_cards
    /\ bot_cards = s.bot_cards
    /\ board = s.board
    /\ pot = s.pot
    /\ player_stack = s.player_stack
    /\ bot_stack = s.bot_stack
    /\ player_bet = s.player_bet
    /\ bot_bet = s.bot_bet
    /\ to_act = s.to_act
    /\ button = s.button
    /\ last_aggressor = s.last_aggressor
    /\ last_raise_size = s.last_raise_size
    /\ hand_number = s.hand_number
    /\ starting_stack = s.starting_stack
    /\ hands_played = s.hands_played
    /\ hands_won = s.hands_won
    /\ biggest_pot_won = s.biggest_pot_won
    /\ biggest_pot_lost = s.biggest_pot_lost
    /\ last_action = s.last_action
    /\ showdown_result = s.showdown_result
    /\ actions_this_street = s.actions_this_street
    /\ overflow_checks = s.overflow_checks
    /\ panicked = s.panicked

\* App::new: the fields of App besides game_state and bot, and those that
\* only feed the display, the statistics and the overlays
AppNew(starting_stack_bb) ==
    [pending_events |-> <<>>,
     next_event_at |-> None,
     showdown_result_shown |-> FALSE,
     visible_board_len |-> 0,
     starting_stack_bb |-> starting_stack_bb,
     last_phase |-> "Preflop"]

\* a GameState built and driven by a test, no App around it
InState(s) ==
    /\ GameIs(s)
    /\ app = AppNew(s.starting_stack \div BIG_BLIND)
    /\ loop_pc = "events"

\* GameState::new(starting_stack_bb)
Init ==
    \E bb \in 1..MaxStackBB, checks \in BOOLEAN, i \in 1..NumShuffles :
        InState(GameStateNew(bb, checks, i))

\* apply_action(to_act, a) for a legal action a of the given kind
Apply(kind) ==
    /\ ~panicked
    /\ phase \in BettingPhases
    /\ actions_this_street < MaxStreetActions
    /\ \E a \in LegalActions(Self) :
          /\ a.kind = kind
          /\ Becomes(apply_action(Self, to_act, a))

ApplyFold == Apply("Fold")
ApplyCheck == Apply("Check")
ApplyCall == Apply("Call")
ApplyBet == Apply("Bet")
ApplyRaise == Apply("Raise")
ApplyAllIn == Apply("AllIn")

\* start_new_hand once the previous hand has ended
StartNewHand ==
    /\ ~panicked
    /\ phase \in {"Showdown", "HandComplete"}
    /\ hand_number < MaxHands
    /\ \E i \in 1..NumShuffles : Becomes(start_new_hand(Self, i))

Next ==
    \/ ApplyFold
    \/ ApplyCheck
    \/ ApplyCall
    \/ ApplyBet
    \/ ApplyRaise
    \/ ApplyAllIn
    \/ StartNewHand

Spec == Init /\ [][Next]_vars

---------------------------------------------------------------------------
(* Reading a step: every step of Spec is either one apply_action call, made *)
(* for the player to act, or one start_new_hand call.                      *)

\* this step is a call apply_action(to_act, action) of the given kind that
\* returned (did not panic)
Applied(kind) ==
    /\ phase \in BettingPhases
    /\ ~panicked
    /\ ~panicked'
    /\ IsSome(last_action')
    /\ Unwrap(last_action')[1] = to_act
    /\ Unwrap(last_action')[2].kind = kind

\* the amount carried by the action of this step
AppliedAmount == Unwrap(last_action')[2].amount

LastKind == IF IsSome(last_action) THEN Unwrap(last_action)[2].kind ELSE "None"
LastActor == IF IsSome(last_action) THEN Unwrap(last_action)[1] ELSE "None"
LastAmount == IF IsSome(last_action) THEN Unwrap(last_action)[2].amount ELSE 0

---------------------------------------------------------------------------
(* C1: chip conservation. In every state reached by legal actions over any *)
(* number of hands, player_stack + bot_stack + pot = 2 * starting_stack    *)
(* (fold and showdown settlement are single steps).                        *)

C1_ChipConservation == player_stack + bot_stack + pot = 2 * starting_stack

\* a later hand has been settled at showdown and chips have changed hands
C1_Witness ==
    /\ hand_number >= 2
    /\ phase = "Showdown"
    /\ player_stack # starting_stack
    /\ pot = 0

---------------------------------------------------------------------------
(* C2: a Fold applied in Preflop, Flop, Turn or River ends the hand in     *)
(* that step: phase becomes HandComplete, the whole pot goes to the        *)
(* non-folder, the folder's stack is unchanged, pot becomes 0 and the      *)
(* board gets no further card.                                             *)

C2_FoldEndsHand ==
    [][Applied("Fold") =>
          /\ phase' = "HandComplete"
          /\ pot' = 0
          /\ board' = board
          /\ IF to_act = "Human"
             THEN player_stack' = player_stack /\ bot_stack' = bot_stack + pot
             ELSE bot_stack' = bot_stack /\ player_stack' = player_stack + pot]_vars

\* a fold on the River has ended the hand and paid a pot that had grown
C2_Witness ==
    /\ phase = "HandComplete"
    /\ LastKind = "Fold"
    /\ Len(board) = 5
    /\ pot = 0
    /\ stack_of(Self, opponent(LastActor)) > starting_stack

---------------------------------------------------------------------------
(* The passive driver of test_full_hand_to_showdown: one hand in which the *)
(* player to act calls what is owed and checks otherwise.                  *)

\* the action the loop of the test builds
PassiveAction(s) ==
    LET to_call == amount_to_call(s, s.to_act)
    IN  IF U32Lt(0, to_call) THEN Call(to_call) ELSE Check

\* a hand of a session starts: any split of the chips with both stacks
\* positive, either button, any deck order
InitPassive ==
    \E bb \in 1..MaxStackBB, checks \in BOOLEAN, i \in 1..NumShuffles,
       prev_button \in Players :
      \E p \in 1..(2 * bb * BIG_BLIND - 1) :
        InState(start_new_hand(
                    [GameStateLiteral(bb, checks) EXCEPT
                        !.phase = "HandComplete",
                        !.player_stack = p,
                        !.bot_stack = 2 * bb * BIG_BLIND - p,
                        !.button = prev_button,
                        !.hand_number = 1,
                        !.hands_played = 1], i))

PassiveStep ==
    /\ ~panicked
    /\ phase \in BettingPhases
    /\ Becomes(apply_action(Self, to_act, PassiveAction(Self)))

\* the loop has left its body: the hand is over or the process has panicked
PassiveDone == panicked \/ phase \notin BettingPhases

\* the fields by which every apply_action call shows
CallFields == <<last_action, actions_this_street, phase, panicked>>

\* the loop body runs once: apply_action is called with the passive action
\* for the player to act and records it; what the call does to the street
\* counter, the phase and the process is left to PassiveStep
PassiveTurn ==
    /\ ~PassiveDone
    /\ last_action' = Some(<<to_act, PassiveAction(Self)>>)
    /\ actions_this_street' \in 0..U8_MAX
    /\ phase' \in BettingPhases \cup {"Showdown", "HandComplete"}
    /\ panicked' \in BOOLEAN

\* every passive step is a turn of the loop that shows in CallFields, so
\* the loop's fairness below is weak fairness of PassiveStep
PassiveStepIsTurn == [][PassiveStep => <<PassiveTurn>>_CallFields]_vars

\* the loop keeps iterating until it is done
SpecPassive ==
    InitPassive /\ [][PassiveStep]_vars /\ WF_CallFields(PassiveTurn)

---------------------------------------------------------------------------
(* C3: from the state right after start_new_hand, both stacks positive     *)
(* before the blinds, the call-or-check driver brings the hand to Showdown *)
(* after finitely many actions, with 5 board cards and showdown_result     *)
(* populated.                                                              *)

C3_PassiveReachesShowdown ==
    <>(phase = "Showdown" /\ Len(board) = 5 /\ IsSome(showdown_result))

\* legal play reaches a hand start where the button's whole stack was the
\* one chip of the small blind while the big blind posted two
C3_ShortButtonStart ==
    /\ phase = "Preflop"
    /\ last_action = None
    /\ stack_of(Self, button) = 0
    /\ current_bet(Self, button) = 1
    /\ current_bet(Self, opponent(button)) = 2

---------------------------------------------------------------------------
(* C4: minimum-raise law. Whenever available_actions reports               *)
(* min_raise = Some(m), m is the street's highest bet plus the greater of  *)
(* BIG_BLIND and the size of the most recent raise on the street: at the   *)
(* start of a hand m is the big blind plus BIG_BLIND, and after every      *)
(* action that lifts the street's highest bet from h to h2, m is           *)
(* h2 + max(BIG_BLIND, h2 - h). Amounts are chip counts (no wrap-around).  *)

\* min_raise as available_actions reports it for the player to act
min_raise == available_actions(Self).min_raise

\* the highest bet of the street
HighestBet == max_bet(Self)

\* this step is an aggressive action: it lifts the street's highest bet
AggressiveStep ==
    /\ Applied("Bet") \/ Applied("Raise") \/ Applied("AllIn")
    /\ phase' = phase
    /\ HighestBet' > HighestBet

IntMax(a, b) == IF a > b THEN a ELSE b

C4_MinRaiseLaw ==
    [][/\ (phase = "Preflop" /\ last_action = None /\ IsSome(min_raise))
            => Unwrap(min_raise) = HighestBet + BIG_BLIND
       /\ (AggressiveStep /\ IsSome(min_raise'))
            => Unwrap(min_raise') =
                   HighestBet' + IntMax(BIG_BLIND, HighestBet' - HighestBet)]_vars

---------------------------------------------------------------------------
(* C5: Bet(a) and Raise(a) carry the actor's target total bet for the      *)
(* street. When a minus the actor's current bet does not exceed the stack, *)
(* the actor pays exactly that difference and, while the street lasts, the *)
(* actor's street bet reads a; last_aggressor becomes the actor (until the *)
(* street ends); last_raise_size becomes a minus the street's highest bet  *)
(* before the action, as a chip count.                                     *)

\* the bet and the stack of the actor of this step, after the step
ActorBetAfter == IF to_act = "Human" THEN player_bet' ELSE bot_bet'
ActorStackAfter == IF to_act = "Human" THEN player_stack' ELSE bot_stack'

\* the u32 x holds the chip count n (n below 2^31)
U32Holds(x, n) == x >= 0 /\ x = n

C5_BetIsTargetTotal ==
    [][(Applied("Bet") \/ Applied("Raise")) =>
          LET a == AppliedAmount
              cur == current_bet(Self, to_act)
              stack == stack_of(Self, to_act)
          IN  /\ (a - cur <= stack /\ phase' \in BettingPhases)
                    => ActorStackAfter = stack - (a - cur)
              /\ (a - cur <= stack /\ phase' = phase) => ActorBetAfter = a
              /\ phase' = phase => last_aggressor' = Some(to_act)
              /\ U32Holds(last_raise_size', a - HighestBet)]_vars

---------------------------------------------------------------------------
(* C6: AllIn(a) records the aggressor and the raise size only when a       *)
(* exceeds the street's highest bet before the action: then                *)
(* last_raise_size becomes a minus that highest bet and last_aggressor the *)
(* actor. Otherwise (an all-in call) the action leaves last_raise_size as  *)
(* it was, and last_aggressor as it was unless the call ends the street,   *)
(* whose advance clears the aggressor.                                     *)

---------------------------------------------------------------------------
(* The white-box showdown of test_split_pot_odd_chip_distribution: the     *)
(* fields of a fresh GameState are overwritten with a pot, the stacks that *)
(* paid it and the cards, here on the River with the round still to be     *)
(* checked down, so that apply_action reaches resolve_showdown.            *)

\* GameState::new(100) and state.pot = 101 of the test
TestStackBB == 100
TestPot == 101

\* the forced hands of the test: both players hold ace-king on a board
\* with an ace
TestPlayerCards == <<Card(14, "Spades"), Card(13, "Spades")>>
TestBotCards == <<Card(14, "Hearts"), Card(13, "Hearts")>>
TestBoard == <<Card(14, "Diamonds"), Card(2, "Clubs"), Card(3, "Clubs"),
               Card(4, "Diamonds"), Card(5, "Hearts")>>

\* the state the test builds, either with its forced cards or with the
\* cards as dealt and the board dealt out; either player on the button
InitShowdown ==
    \E checks \in BOOLEAN, i \in 1..NumShuffles, b \in Players,
       forced \in BOOLEAN, p \in (1..MaxPot) \cup {TestPot} :
        LET s0 == GameStateNew(TestStackBB, checks, i)
        IN  InState([s0 EXCEPT
                        !.pot = p,
                        !.player_stack = @ - p \div 2,
                        !.bot_stack = @ - (p - p \div 2),
                        !.player_cards = IF forced THEN TestPlayerCards ELSE @,
                        !.bot_cards = IF forced THEN TestBotCards ELSE @,
                        !.board = IF forced THEN TestBoard
                                  ELSE deal_n_cards(s0.deck, 5),
                        !.deck = deal_n_deck(s0.deck, 5),
                        !.phase = "River",
                        !.player_bet = 0,
                        !.bot_bet = 0,
                        !.button = b,
                        !.to_act = opponent(b)])

SpecShowdown == InitShowdown /\ [][PassiveStep]_vars

\* this step settles a showdown
Settled == phase \in BettingPhases /\ phase' = "Showdown"

\* the pot that the showdown of this step awards
SettledPot == Unwrap(showdown_result').pot_won

\* the chips the showdown of this step awards to a player: the stack after
\* the step, less the stack left after the chips the action itself put in
Award(player) ==
    LET paid == IF player = to_act THEN SettledPot - pot ELSE 0
        after == IF player = "Human" THEN player_stack' ELSE bot_stack'
    IN  after - (stack_of(Self, player) - paid)

---------------------------------------------------------------------------
(* C7: at a tied showdown (equal category, equal kickers) each player is   *)
(* awarded floor(pot / 2); when the pot is odd the extra chip goes to the  *)
(* non-button player, never to the button; the awards sum to the pot.      *)

C7_SplitPot ==
    [][(/\ Settled
        /\ Unwrap(showdown_result').player_hand.rank
              = Unwrap(showdown_result').bot_hand.rank
        /\ Unwrap(showdown_result').player_hand.kickers
              = Unwrap(showdown_result').bot_hand.kickers)
       => /\ Award(button) = SettledPot \div 2
          /\ Award(opponent(button)) = (SettledPot \div 2) + (SettledPot % 2)
          /\ Award("Human") + Award("Bot") = SettledPot
          /\ pot' = 0]_vars

\* the pot of 101 has been split at a tie with the Human on the button
C7_Witness ==
    /\ phase = "Showdown"
    /\ IsSome(showdown_result)
    /\ Unwrap(showdown_result).winner = None
    /\ Unwrap(showdown_result).pot_won = TestPot
    /\ button = "Human"

---------------------------------------------------------------------------
(* C8: at a showdown where one player's evaluation is strictly greater     *)
(* (category, then kickers), that player's stack grows by the whole pot,   *)
(* the other's is unchanged, pot becomes 0, phase becomes Showdown and     *)
(* showdown_result records that winner with pot_won the pot before         *)
(* settlement (the pot with the chips of the settling action in it).       *)

IntMin(a, b) == IF a < b THEN a ELSE b

\* the chips the action of this step moves from the actor's stack
StepChips ==
    LET kind == Unwrap(last_action')[2].kind
        stack == stack_of(Self, to_act)
    IN  IF kind \in {"Fold", "Check"} THEN 0
        ELSE IF kind = "Call" THEN U32Min(AppliedAmount, stack)
        ELSE U32Min(AppliedAmount - current_bet(Self, to_act), stack)

\* the stack a player holds when the showdown of this step is settled
StackAtSettlement(player) ==
    stack_of(Self, player) - (IF player = to_act THEN StepChips ELSE 0)

\* the stack of a player after this step
StackAfter(player) == IF player = "Human" THEN player_stack' ELSE bot_stack'

\* the better of the two evaluations made at the showdown of this step, as
\* its ShowdownResult keeps them: 1 Human, -1 Bot, 0 none
ShowdownCmp ==
    EvalCmp(Unwrap(showdown_result').player_hand,
            Unwrap(showdown_result').bot_hand)

C8_WinnerTakesPot ==
    [][(Settled /\ ShowdownCmp # 0) =>
          LET w == IF ShowdownCmp = 1 THEN "Human" ELSE "Bot"
              p == pot + StepChips
          IN  /\ StackAfter(w) = StackAtSettlement(w) + p
              /\ StackAfter(opponent(w)) = StackAtSettlement(opponent(w))
              /\ pot' = 0
              /\ Unwrap(showdown_result').winner = Some(w)
              /\ Unwrap(showdown_result').pot_won = p]_vars

\* a showdown has been settled for the Bot with more than the blinds in
\* the pot
C8_Witness ==
    /\ phase = "Showdown"
    /\ IsSome(showdown_result)
    /\ Unwrap(showdown_result).winner = Some("Bot")
    /\ Unwrap(showdown_result).pot_won > 2 * BIG_BLIND
    /\ bot_stack > starting_stack

---------------------------------------------------------------------------
(* C9: the big blind's option. On Preflop with no aggressor and both       *)
(* stacks positive, the button's call that equalises the street bets does  *)
(* not complete the round: the phase stays Preflop and the big blind is to *)
(* act. With no aggressor, a Check or Call moves Preflop on to the Flop    *)
(* only if it is the big blind's Check.                                    *)

\* both players still hold chips after this step
BothStacksAfter == player_stack' > 0 /\ bot_stack' > 0

C9_BigBlindOption ==
    [][/\ (/\ Applied("Call")
           /\ phase = "Preflop"
           /\ to_act = button
           /\ last_aggressor = None
           /\ ActorBetAfter = current_bet(Self, opponent(button))
           /\ BothStacksAfter)
          => (phase' = "Preflop" /\ to_act' = opponent(button))
       /\ (/\ Applied("Check") \/ Applied("Call")
           /\ phase = "Preflop"
           /\ last_aggressor = None
           /\ BothStacksAfter
           /\ phase' # "Preflop")
          => (Applied("Check") /\ to_act = opponent(button))]_vars

\* the button has limped: the bets are level, nobody has raised, both hold
\* chips, and the hand is still on Preflop with the big blind to act
C9_Witness ==
    /\ phase = "Preflop"
    /\ LastKind = "Call"
    /\ LastActor = button
    /\ to_act = opponent(button)
    /\ player_bet = bot_bet
    /\ last_aggressor = None
    /\ player_stack > 0
    /\ bot_stack > 0

---------------------------------------------------------------------------
(* C10: on Flop, Turn or River with both stacks positive and no bet made,  *)
(* the first Check of the street leaves the phase unchanged and passes the *)
(* turn to the other player; with both stacks positive the street advances *)
(* (on River: the showdown is resolved) only when the other player has     *)
(* already acted on that street.                                           *)

Postflop == {"Flop", "Turn", "River"}

C10_BothMustAct ==
    [][/\ (/\ Applied("Check")
           /\ phase \in Postflop
           /\ actions_this_street = 0
           /\ player_stack > 0 /\ bot_stack > 0
           /\ player_bet = 0 /\ bot_bet = 0)
          => (phase' = phase /\ to_act' = opponent(to_act))
       /\ (/\ phase \in Postflop
           /\ ~panicked
           /\ player_stack > 0 /\ bot_stack > 0
           /\ phase' \notin {phase, "HandComplete"})
          => (actions_this_street >= 1 /\ LastActor = opponent(to_act))]_vars

\* the first check of the Flop has been applied: still the Flop, one action
\* counted, the other player to act
C10_Witness ==
    /\ phase = "Flop"
    /\ LastKind = "Check"
    /\ actions_this_street = 1
    /\ to_act = opponent(LastActor)
    /\ player_stack > 0 /\ bot_stack > 0
    /\ player_bet = 0 /\ bot_bet = 0

---------------------------------------------------------------------------
(* C11: when either stack is zero after a non-fold action, the betting     *)
(* round is complete (the street advances, on River the showdown is        *)
(* resolved) exactly when the two street bets are equal, whatever the      *)
(* action counter, the aggressor and the big blind's option; with unequal  *)
(* bets the round is not complete.                                         *)

\* this step is a non-fold action that returned
AppliedNonFold ==
    \/ Applied("Check")
    \/ Applied("Call")
    \/ Applied("Bet")
    \/ Applied("Raise")
    \/ Applied("AllIn")

\* the street bet of a player once the action of this step has moved its
\* chips, as is_betting_round_complete reads it
BetAtRoundTest(player) ==
    current_bet(Self, player) + (IF player = to_act THEN StepChips ELSE 0)

\* the action of this step completed the betting round
RoundCompleted == phase' # phase

C11_AllInRoundComplete ==
    [][(/\ AppliedNonFold
        /\ StackAtSettlement("Human") = 0 \/ StackAtSettlement("Bot") = 0)
       => (RoundCompleted <=> BetAtRoundTest("Human") = BetAtRoundTest("Bot"))]_vars

\* the button's all-in call on Preflop has completed the round with no
\* aggressor and without the big blind's check: the Flop is dealt
C11_Witness ==
    /\ phase = "Flop"
    /\ actions_this_street = 0
    /\ LastKind = "AllIn"
    /\ LastActor = button
    /\ player_stack = 0
    /\ bot_stack = 0

---------------------------------------------------------------------------
(* C12: once a player is all-in (stack zero) and the street bets are       *)
(* equal, no further betting is possible for the rest of the hand: on      *)
(* every later street available_actions offers the player who still holds  *)
(* chips no bet and no raise (min_bet and min_raise absent), and no chips  *)
(* enter the pot before the showdown.                                      *)

\* a later street of a hand in which a player is all-in and the bets are
\* level
AllInMatched ==
    /\ phase \in Postflop
    /\ ~panicked
    /\ player_stack = 0 \/ bot_stack = 0
    /\ player_bet = bot_bet

\* min_bet as available_actions reports it for the player to act
min_bet == available_actions(Self).min_bet

C12_NoBettingAfterAllIn ==
    [][AllInMatched =>
          /\ stack_of(Self, to_act) > 0 => (min_bet = None /\ min_raise = None)
          /\ (~panicked' /\ phase' \in BettingPhases) => pot' = pot
          /\ Settled => SettledPot = pot]_vars

---------------------------------------------------------------------------
(* The dealing of test_button_alternates: a GameState is constructed and   *)
(* start_new_hand is called again and again, whatever the state of the     *)
(* hand in progress.                                                       *)

\* the number of hands dealt in a row
MaxDeals == 8

\* GameState::new, with the small stacks or with the 100 big blinds of the
\* test
InitDeal ==
    \E bb \in (1..MaxStackBB) \cup {TestStackBB}, checks \in BOOLEAN,
       i \in 1..NumShuffles :
        InState(GameStateNew(bb, checks, i))

\* state.start_new_hand()
DealNextHand ==
    /\ hand_number < MaxDeals
    /\ \E i \in 1..NumShuffles : Becomes(start_new_hand(Self, i))

SpecDeal == InitDeal /\ [][DealNextHand]_vars

\* this step is a call of start_new_hand
NewHandStarted == hand_number' = hand_number + 1

---------------------------------------------------------------------------
(* C13: the button alternates every hand. Each call of start_new_hand sets *)
(* button to the opponent of the previous button, so that the button of    *)
(* hand n + 2 is the button of hand n and differs from that of hand n + 1: *)
(* from GameState::new on, the Human has the button of the odd hands and   *)
(* the Bot that of the even hands.                                         *)

\* the button of the n-th hand of a session: GameState::new starts from
\* button Bot and its start_new_hand gives the first button to the Human
ButtonOfHand(n) == IF n % 2 = 1 THEN "Human" ELSE "Bot"

C13_ButtonAlternates ==
    [][NewHandStarted =>
          /\ button' = opponent(button)
          /\ button = ButtonOfHand(hand_number)
          /\ button' = ButtonOfHand(hand_number')]_vars

\* the third hand has been dealt and the button is back with the player of
\* the first hand
C13_Witness ==
    /\ hand_number = 3
    /\ button = "Human"
    /\ phase = "Preflop"
    /\ last_action = None

---------------------------------------------------------------------------
(* C14: immediately after start_new_hand the button's street bet is        *)
(* min(SMALL_BLIND, the button's stack before posting), the other player's *)
(* street bet is min(BIG_BLIND, that player's stack before posting), each  *)
(* stack is reduced by exactly its own post, pot is the sum of the two     *)
(* posts, the board is empty and phase is Preflop. In the first hand the   *)
(* stacks before posting are the starting stacks.                          *)

\* the street bet of a player after this step
BetAfter(player) == IF player = "Human" THEN player_bet' ELSE bot_bet'

\* the state is the one start_new_hand left: nothing has been done yet
HandJustStarted == phase = "Preflop" /\ last_action = None /\ ~panicked

C14_BlindsPosted ==
    [][/\ NewHandStarted =>
            LET b == button'
                o == opponent(button')
                sb == IntMin(SMALL_BLIND, stack_of(Self, b))
                bb == IntMin(BIG_BLIND, stack_of(Self, o))
            IN  /\ BetAfter(b) = sb
                /\ BetAfter(o) = bb
                /\ StackAfter(b) = stack_of(Self, b) - sb
                /\ StackAfter(o) = stack_of(Self, o) - bb
                /\ pot' = sb + bb
                /\ board' = <<>>
                /\ phase' = "Preflop"
       /\ (HandJustStarted /\ hand_number = 1) =>
            LET sb == IntMin(SMALL_BLIND, starting_stack)
                bb == IntMin(BIG_BLIND, starting_stack)
            IN  /\ current_bet(Self, button) = sb
                /\ current_bet(Self, opponent(button)) = bb
                /\ stack_of(Self, button) = starting_stack - sb
                /\ stack_of(Self, opponent(button)) = starting_stack - bb
                /\ pot = sb + bb
                /\ board = <<>>]_vars

\* a later hand has started with a big blind who held a single chip: the
\* post is that chip
C14_Witness ==
    /\ HandJustStarted
    /\ hand_number >= 2
    /\ current_bet(Self, opponent(button)) = 1
    /\ stack_of(Self, opponent(button)) = 0
    /\ current_bet(Self, button) = SMALL_BLIND
    /\ pot = 2

---------------------------------------------------------------------------
(* C15: turn order. The first player to act on Preflop is the button;      *)
(* whenever a street advance enters Flop, Turn or River, to_act is the     *)
(* non-button player; and after a non-fold action that does not complete   *)
(* the round, to_act is the opponent of the player who just acted.         *)

\* this step is a street advance that enters Flop, Turn or River
StreetEntered == phase \in BettingPhases /\ phase' \in Postflop /\ phase' # phase

C15_TurnOrder ==
    [][/\ HandJustStarted => to_act = button
       /\ StreetEntered => to_act' = opponent(button')
       /\ (AppliedNonFold /\ ~RoundCompleted) => to_act' = opponent(to_act)]_vars

\* the big blind has checked the option and is first to act again on the
\* Flop
C15_Witness ==
    /\ phase = "Flop"
    /\ actions_this_street = 0
    /\ LastKind = "Check"
    /\ LastActor = opponent(button)
    /\ to_act = opponent(button)
    /\ player_stack > 0 /\ bot_stack > 0

---------------------------------------------------------------------------
(* C16: each street advance resets both street bets to 0, clears           *)
(* last_aggressor, resets actions_this_street to 0 and deals exactly 3     *)
(* cards (Preflop to Flop), 1 card (Flop to Turn) or 1 card (Turn to       *)
(* River), so that in every state reached through start_new_hand and       *)
(* apply_action the board holds 0 cards in Preflop, 3 in Flop, 4 in Turn   *)
(* and 5 in River and Showdown.                                            *)

\* the number of community cards that belongs to the phase
BoardMatchesPhase ==
    /\ phase = "Preflop" => Len(board) = 0
    /\ phase = "Flop" => Len(board) = 3
    /\ phase = "Turn" => Len(board) = 4
    /\ phase \in {"River", "Showdown"} => Len(board) = 5

\* the number of cards advance_phase deals when it leaves the phase
CardsDealtFrom(ph) == IF ph = "Preflop" THEN 3 ELSE IF ph = "River" THEN 0 ELSE 1

C16_StreetAdvance ==
    [][/\ BoardMatchesPhase
       /\ BoardMatchesPhase'
       /\ (StreetEntered \/ Settled) =>
            /\ player_bet' = 0
            /\ bot_bet' = 0
            /\ last_aggressor' = None
            /\ actions_this_street' = 0
            /\ Len(board') = Len(board) + CardsDealtFrom(phase)
            /\ SubSeq(board', 1, Len(board)) = board
            /\ Len(deck'.cards) - deck'.index
                  = Len(deck.cards) - deck.index - CardsDealtFrom(phase)]_vars

\* a bet of the Turn has been called and the River card dealt: five cards
\* on the board, the bets, the aggressor and the counter cleared
C16_Witness ==
    /\ phase = "River"
    /\ Len(board) = 5
    /\ LastKind = "Call"
    /\ LastAmount > 0
    /\ player_bet = 0 /\ bot_bet = 0
    /\ last_aggressor = None
    /\ actions_this_street = 0

---------------------------------------------------------------------------
(* C17: available_actions reports can_check true iff the player to act     *)
(* owes nothing, and can_call = Some(x) exactly when the amount owed is    *)
(* positive and strictly less than that player's stack, with x the amount  *)
(* owed; when the amount owed is at least the stack, can_call is absent    *)
(* and can_check is false, so that the only ways to continue are all-in or *)
(* fold.                                                                   *)

\* a player is to act
ActionAwaited == phase \in BettingPhases /\ ~panicked

\* the chips the player to act owes: the street's highest bet less the
\* player's own
Owed == IntMax(player_bet, bot_bet) - current_bet(Self, to_act)

\* the stack of the player to act
ActorStack == stack_of(Self, to_act)

\* can_check and can_call as available_actions reports them
can_check == available_actions(Self).can_check
can_call == available_actions(Self).can_call

\* the kinds of action open to the player to act
OfferedKinds == {a.kind : a \in LegalActions(Self)}

\* the claim as stated: the last clause for every amount owed that is at
\* least the stack
C17_AsStated ==
    ActionAwaited =>
        /\ can_check <=> Owed = 0
        /\ can_call = IF Owed > 0 /\ Owed < ActorStack THEN Some(Owed) ELSE None
        /\ Owed >= ActorStack =>
              /\ can_call = None
              /\ ~can_check
              /\ OfferedKinds \subseteq {"Fold", "AllIn"}

\* C17 (amended): as stated, with the last clause for a positive amount
\* owed that is at least the stack; a player with no chips who owes
\* nothing is offered the check
C17_CheckAndCall ==
    ActionAwaited =>
        /\ can_check <=> Owed = 0
        /\ can_call = IF Owed > 0 /\ Owed < ActorStack THEN Some(Owed) ELSE None
        /\ (Owed > 0 /\ Owed >= ActorStack) =>
              /\ can_call = None
              /\ ~can_check
              /\ OfferedKinds \subseteq {"Fold", "AllIn"}
        /\ (Owed = 0 /\ ActorStack = 0) => OfferedKinds = {"Check"}

\* the player to act faces a bet of exactly the chips left: no call is
\* offered, the all-in is
C17_Witness ==
    /\ ActionAwaited
    /\ Owed > 0
    /\ Owed = ActorStack
    /\ can_call = None
    /\ OfferedKinds = {"Fold", "AllIn"}

---------------------------------------------------------------------------
(* C18: available_actions reports min_raise = Some(m) exactly when the     *)
(* player to act owes a positive amount and the minimum raise-to amount m  *)
(* (the street's highest bet plus the greater of BIG_BLIND and the last    *)
(* raise, in chips) is strictly less than that player's remaining stack;   *)
(* otherwise min_raise is absent; max_raise always equals the remaining    *)
(* stack of the player to act.                                             *)

\* max_raise as available_actions reports it
max_raise == available_actions(Self).max_raise

\* the last raise is a chip count below every stack (a negative value
\* stands for a u32 of 2^32 less its magnitude, above every stack)
LastRaiseInChips == last_raise_size >= 0

\* the minimum raise-to amount in chips
MinRaiseTo == HighestBet + IntMax(BIG_BLIND, last_raise_size)

C18_MinRaiseOffered ==
    ActionAwaited =>
        /\ min_raise = IF Owed > 0 /\ LastRaiseInChips /\ MinRaiseTo < ActorStack
                       THEN Some(MinRaiseTo) ELSE None
        /\ max_raise = ActorStack

---------------------------------------------------------------------------
(* apply_action as a public method: a caller may pass any action with any  *)
(* amount for the player to act, whether available_actions offers it or    *)
(* not. One hand is followed: arbitrary actions on Preflop, Flop and Turn, *)
(* and the River called or checked down to the showdown.                   *)

\* the largest amount a caller passes
MaxAmount == 5

\* the number of arbitrary actions followed on one street
MaxAnyStreetActions == 2

\* every action a caller may build
AnyActions ==
    {Fold, Check}
      \cup {Call(a) : a \in 0..MaxAmount}
      \cup {Bet(a) : a \in 0..MaxAmount}
      \cup {Raise(a) : a \in 0..MaxAmount}
      \cup {AllIn(a) : a \in 0..MaxAmount}

\* the streets on which arbitrary actions are passed
AnyStreets == {"Preflop", "Flop", "Turn"}

\* apply_action(to_act, a) for any action a of the given kind
ApplyAny(kind) ==
    /\ ~panicked
    /\ phase \in AnyStreets
    /\ actions_this_street < MaxAnyStreetActions
    /\ \E a \in AnyActions :
          /\ a.kind = kind
          /\ Becomes(apply_action(Self, to_act, a))

AnyFold == ApplyAny("Fold")
AnyCheck == ApplyAny("Check")
AnyCall == ApplyAny("Call")
AnyBet == ApplyAny("Bet")
AnyRaise == ApplyAny("Raise")
AnyAllIn == ApplyAny("AllIn")

\* on the River the player to act calls what is owed and checks otherwise
AnyRiver ==
    /\ phase = "River"
    /\ actions_this_street < MaxAnyStreetActions
    /\ PassiveStep

NextAnyAmount ==
    \/ AnyFold
    \/ AnyCheck
    \/ AnyCall
    \/ AnyBet
    \/ AnyRaise
    \/ AnyAllIn
    \/ AnyRiver

\* one hand of a session, played with arbitrary actions
SpecAnyAmount == Init /\ [][NextAnyAmount]_vars

---------------------------------------------------------------------------
(* C19: for every action kind and every amount, apply_action never charges *)
(* the actor more than the actor holds: the actor's stack decreases by     *)
(* min(requested increment, stack) and never below 0, the actor's street   *)
(* bet and the pot each increase by that same number, and the opponent's   *)
(* stack and street bet are unchanged by the chip movement. (The requested *)
(* increment is the u32 the arm passes to add_chips; a street advance then *)
(* clears the bets and a showdown pays the pot out.)                       *)

\* this step is an apply_action call that returned
AppliedAny == AppliedNonFold \/ Applied("Fold")

C19_NeverOvercharged ==
    [][/\ player_stack' >= 0
       /\ bot_stack' >= 0
       /\ AppliedAny =>
            LET chips == StepChips
                o == opponent(to_act)
            IN  /\ 0 <= chips
                /\ chips <= ActorStack
                /\ phase' \in BettingPhases =>
                      /\ StackAfter(to_act) = ActorStack - chips
                      /\ StackAfter(o) = stack_of(Self, o)
                      /\ pot' = pot + chips
                /\ phase' = phase =>
                      /\ BetAfter(to_act) = current_bet(Self, to_act) + chips
                      /\ BetAfter(o) = current_bet(Self, o)
                /\ Settled =>
                      /\ SettledPot = pot + chips
                      /\ StackAfter(to_act) + StackAfter(o)
                            = (ActorStack - chips) + stack_of(Self, o) + SettledPot
                /\ phase' = "HandComplete" =>
                      /\ chips = 0
                      /\ StackAfter(to_act) = ActorStack
                      /\ StackAfter(o) = stack_of(Self, o) + pot]_vars

\* a bet of more than the actor held has been applied: the actor is left
\* with no chips and a street bet below the amount asked for
C19_Witness ==
    /\ phase \in BettingPhases
    /\ ~panicked
    /\ LastKind = "Bet"
    /\ stack_of(Self, LastActor) = 0
    /\ to_act = opponent(LastActor)
    /\ 0 < current_bet(Self, LastActor)
    /\ current_bet(Self, LastActor) < LastAmount

---------------------------------------------------------------------------
(* C20: invalid-amount input is silently clamped to a legal value. When    *)
(* apply_action receives a Call smaller than the amount owed, a Raise      *)
(* below the minimum raise-to amount, or a Bet exceeding the stack, the    *)
(* chips moved and the aggressor and raise size recorded are those of a    *)
(* legal action: the call matches min(owed, stack), the raise reaches at   *)
(* least the minimum raise-to or is all-in, the bet is at most the stack;  *)
(* and no error is raised.                                                 *)

\* this step is a call apply_action(to_act, action) of the given kind,
\* whether it returned or panicked
Called(kind) ==
    /\ phase \in BettingPhases
    /\ ~panicked
    /\ IsSome(last_action')
    /\ Unwrap(last_action')[1] = to_act
    /\ Unwrap(last_action')[2].kind = kind

\* the street bet the actor holds once the chips of this step have moved
ActorBetReached == current_bet(Self, to_act) + StepChips

C20_InvalidAmountClamped ==
    [][/\ (Called("Call") /\ Owed > 0 /\ AppliedAmount < Owed) =>
            /\ ~panicked'
            /\ StepChips = IntMin(Owed, ActorStack)
            /\ phase' = phase => BetAfter(to_act) = ActorBetReached
       /\ (Called("Raise") /\ Owed > 0 /\ LastRaiseInChips
              /\ AppliedAmount < MinRaiseTo) =>
            /\ ~panicked'
            /\ ActorBetReached >= MinRaiseTo \/ StepChips = ActorStack
            /\ phase' = phase =>
                  /\ BetAfter(to_act) = ActorBetReached
                  /\ last_aggressor' = Some(to_act)
            /\ U32Holds(last_raise_size', ActorBetReached - HighestBet)
       /\ (Called("Bet") /\ Owed = 0
              /\ AppliedAmount - current_bet(Self, to_act) > ActorStack) =>
            /\ ~panicked'
            /\ StepChips = ActorStack
            /\ phase' = phase =>
                  /\ BetAfter(to_act) = ActorBetReached
                  /\ last_aggressor' = Some(to_act)
            /\ U32Holds(last_raise_size', ActorBetReached - HighestBet)]_vars

---------------------------------------------------------------------------
(* C21: no operation fails under correct driving. In every state reachable *)
(* by legal play, the Bet(min_bet) and the Raise(min_raise) that           *)
(* available_actions offers are at least the actor's current street bet    *)
(* and at least the street's highest bet, so that the u32 subtractions     *)
(* amount - current_bet and amount - old_max of apply_action do not        *)
(* underflow.                                                              *)

\* amount - current_bet and amount - old_max stay in the u32 range for the
\* player to act
NoUnderflowFor(amount) ==
    /\ ~SubOverflows(amount, current_bet(Self, to_act))
    /\ ~SubOverflows(amount, HighestBet)

C21_OfferedAmountsNoUnderflow ==
    ActionAwaited =>
        /\ IsSome(min_bet) => NoUnderflowFor(Unwrap(min_bet))
        /\ IsSome(min_raise) => NoUnderflowFor(Unwrap(min_raise))

---------------------------------------------------------------------------
(* C22: showdown_result is present exactly when a hand has reached         *)
(* showdown. In every state reached through start_new_hand and             *)
(* apply_action it is none in Preflop, Flop, Turn, River and HandComplete  *)
(* (so the next start_new_hand has cleared it), and in Showdown it is the  *)
(* result that showdown resolution set when the River round completed: it  *)
(* records a pot that has been paid out, on a full board; no step changes  *)
(* it while the phase stays Showdown.                                      *)

---------------------------------------------------------------------------
(* C23: start_new_hand resets the per-hand fields (phase, cards, board,    *)
(* pot, street bets, aggressor, last_raise_size, last_action,              *)
(* showdown_result, action counter) but leaves the session counters        *)
(* hands_played, hands_won, biggest_pot_won, biggest_pot_lost and          *)
(* starting_stack unchanged, and increases hand_number by exactly 1.       *)

\* this step leaves a hand that has ended: the call of start_new_hand
HandEndedStep == phase \in {"Showdown", "HandComplete"} /\ ~panicked

C23_NewHandFrame ==
    [][HandEndedStep =>
          /\ phase' = "Preflop"
          /\ deck'.index = 4
          /\ player_cards' = <<deck'.cards[1], deck'.cards[2]>>
          /\ bot_cards' = <<deck'.cards[3], deck'.cards[4]>>
          /\ board' = <<>>
          /\ pot' = player_bet' + bot_bet'
          /\ player_bet' <= BIG_BLIND /\ bot_bet' <= BIG_BLIND
          /\ player_stack' + player_bet' = player_stack
          /\ bot_stack' + bot_bet' = bot_stack
          /\ last_aggressor' = None
          /\ last_raise_size' = BIG_BLIND
          /\ last_action' = None
          /\ showdown_result' = None
          /\ actions_this_street' = 0
          /\ hands_played' = hands_played
          /\ hands_won' = hands_won
          /\ biggest_pot_won' = biggest_pot_won
          /\ biggest_pot_lost' = biggest_pot_lost
          /\ starting_stack' = starting_stack
          /\ hand_number' = hand_number + 1]_vars

\* the second hand has started after a hand the Human won: the counters of
\* the session still show it
C23_Witness ==
    /\ hand_number = 2
    /\ HandJustStarted
    /\ hands_played = 1
    /\ hands_won = 1
    /\ biggest_pot_won > 2 * BIG_BLIND
    /\ biggest_pot_lost = 0

---------------------------------------------------------------------------
(* The evaluator tests (hand_eval_tests, hand.rs tests): hole cards and a  *)
(* board are written into a GameState on the River, the round is checked   *)
(* down and resolve_showdown keeps evaluate_hand(player_cards, board) in   *)
(* showdown_result. The cards come from a small deck that holds every      *)
(* category, in several orders and splits, and from the hands of five      *)
(* distinct ranks, suited and unsuited.                                    *)

\* the cards of the small deck
EvalCards ==
    <<Card(14, "Spades"), Card(2, "Spades"), Card(3, "Spades"),
      Card(4, "Spades"), Card(5, "Spades"), Card(6, "Spades"),
      Card(2, "Hearts"), Card(2, "Diamonds"), Card(2, "Clubs"),
      Card(3, "Hearts"), Card(3, "Diamonds"), Card(6, "Hearts")>>

\* the number of cards of the small deck in use
EvalDeckSize == 10

\* the most cards evaluated at once: two hole cards and five board cards
MaxEvalCards == 7

\* the number of orders in which each card set is passed
MaxOrders == 3

\* the j-th order of a sequence: as it is, reversed, rotated
Reorder(seq, j) ==
    LET n == Len(seq)
    IN  IF j = 1 THEN seq
        ELSE IF j = 2 THEN [k \in 1..n |-> seq[n + 1 - k]]
        ELSE [k \in 1..n |-> seq[((k + j - 3) % n) + 1]]

\* the card sequences evaluated: the subsets of the small deck in each
\* order, and five cards of each set of distinct ranks, of one suit or of
\* mixed suits
EvalHands ==
    LET CardsAt(I) ==
            LET idx == SetDesc(I) IN [k \in 1..Len(idx) |-> EvalCards[idx[k]]]
        RankHand(R, suited) ==
            LET rs == SetDesc(R)
            IN  [k \in 1..Len(rs) |->
                    Card(rs[k], IF suited THEN "Spades" ELSE Suits[(k % 4) + 1])]
    IN  {Reorder(CardsAt(I), j) :
            I \in {J \in SUBSET (1..EvalDeckSize) : Cardinality(J) <= MaxEvalCards},
            j \in 1..MaxOrders}
          \cup {RankHand(R, suited) :
                    R \in {Q \in SUBSET (2..14) : Cardinality(Q) = 5},
                    suited \in BOOLEAN}

\* the state a test builds: the first h cards as hole cards, the rest as
\* the board, nothing bet on the River
InitEval ==
    \E hand \in EvalHands, h \in {0, 2} :
        LET s0 == GameStateNew(TestStackBB, TRUE, 1)
            k == IntMin(h, Len(hand))
        IN  InState([s0 EXCEPT
                        !.player_cards = SubSeq(hand, 1, k),
                        !.bot_cards = <<>>,
                        !.board = SubSeq(hand, k + 1, Len(hand)),
                        !.phase = "River",
                        !.player_bet = 0,
                        !.bot_bet = 0,
                        !.to_act = opponent(s0.button)])

SpecEval == InitEval /\ [][PassiveStep]_vars

\* the cards evaluated, and the evaluation resolve_showdown keeps
AllCards == player_cards \o board
Evaluation == Unwrap(showdown_result).player_hand

---------------------------------------------------------------------------
\* the 5-card subsets of a sequence of distinct cards
FiveCardHands(cards) ==
    {[k \in 1..5 |-> cards[SetDesc(I)[k]]] :
        I \in {J \in SUBSET (1..Len(cards)) : Cardinality(J) = 5}}

(* C24: for 5 to 7 distinct cards evaluate_hand returns the maximum, by     *)
(* category and then by the kicker sequence, of evaluate_five over every    *)
(* 5-card subset: 21 subsets for 7 cards, 6 for 6 cards, 1 for 5 cards.     *)
C24_BestFiveOfAll ==
    (phase = "Showdown" /\ Len(AllCards) \in 5..7) =>
        LET n == Len(AllCards)
            hands == FiveCardHands(AllCards)
        IN  /\ Len(combinations(AllCards, 5)) = Cardinality(hands)
            /\ Cardinality(hands) = (IF n = 7 THEN 21 ELSE IF n = 6 THEN 6 ELSE 1)
            /\ \E h \in hands : Evaluation = evaluate_five(h)
            /\ \A h \in hands : EvalCmp(Evaluation, evaluate_five(h)) >= 0

\* seven cards whose best five are not the first five: quad deuces
C24_Witness ==
    /\ phase = "Showdown"
    /\ Len(AllCards) = 7
    /\ Evaluation = HandEvaluation(FourOfAKind, <<2>>)
    /\ evaluate_five(SubSeq(AllCards, 1, 5)).rank < FourOfAKind

(* C25: a 5-card hand gets the highest category that applies, in the      *)
(* order straight flush, four of a kind, full house, flush, straight,      *)
(* three of a kind, two pair, one pair, high card; a flush is five cards   *)
(* of one suit, a straight five distinct consecutive ranks or A-2-3-4-5.   *)
C25_HighestCategory ==
    (phase = "Showdown" /\ Len(AllCards) = 5) =>
        LET Times(r) == Cardinality({i \in 1..5 : AllCards[i].rank = r})
            R == {AllCards[i].rank : i \in 1..5}
            flush == \A i \in 1..5 : AllCards[i].suit = AllCards[1].suit
            straight ==
                /\ Cardinality(R) = 5
                /\ \/ \E lo \in 2..10 : R = lo..(lo + 4)
                   \/ R = {14, 2, 3, 4, 5}
            pairs == Cardinality({r \in R : Times(r) = 2})
            trips == \E r \in R : Times(r) = 3
        IN  Evaluation.rank =
                IF straight /\ flush THEN StraightFlush
                ELSE IF \E r \in R : Times(r) = 4 THEN FourOfAKind
                ELSE IF trips /\ pairs = 1 THEN FullHouse
                ELSE IF flush THEN Flush
                ELSE IF straight THEN Straight
                ELSE IF trips THEN ThreeOfAKind
                ELSE IF pairs = 2 THEN TwoPair
                ELSE IF pairs = 1 THEN Pair
                ELSE HighCard

\* five cards that are both a flush and a straight
C25_Witness ==
    /\ phase = "Showdown"
    /\ Len(AllCards) = 5
    /\ Evaluation.rank = StraightFlush
    /\ \A i \in 1..5 : AllCards[i].suit = "Spades"

(* C26: A-2-3-4-5 is a Straight (or StraightFlush) with kicker Five,       *)
(* 2-3-4-5-6 one with kicker Six, every other straight one with its top    *)
(* rank, and the wheel compares strictly below every other straight; an    *)
(* Ace with ranks other than 2-3-4-5 or T-J-Q-K completes no straight.     *)
C26_WheelIsFiveHigh ==
    (phase = "Showdown" /\ Len(AllCards) = 5) =>
        LET R == {AllCards[i].rank : i \in 1..5}
            is_straight == Evaluation.rank \in {Straight, StraightFlush}
        IN  /\ R = {14, 2, 3, 4, 5} => is_straight /\ Evaluation.kickers = <<5>>
            /\ \A lo \in 2..10 :
                  R = lo..(lo + 4) => is_straight /\ Evaluation.kickers = <<lo + 4>>
            /\ (is_straight /\ R # {14, 2, 3, 4, 5}) =>
                  EvalCmp(HandEvaluation(Evaluation.rank, <<5>>), Evaluation) = -1
            /\ (14 \in R /\ R # {14, 2, 3, 4, 5} /\ R # 10..14) => ~is_straight

\* the wheel, evaluated
C26_Witness ==
    /\ phase = "Showdown"
    /\ {AllCards[i].rank : i \in 1..Len(AllCards)} = {14, 2, 3, 4, 5}
    /\ Len(AllCards) = 5
    /\ Evaluation = HandEvaluation(Straight, <<5>>)

\* five cards of one suit; five distinct consecutive ranks or A-2-3-4-5
OneSuit(h) == \A i \in 1..Len(h) : h[i].suit = h[1].suit
RanksInARow(h) ==
    LET R == {h[i].rank : i \in 1..Len(h)}
    IN  \/ \E lo \in 2..10 : R = lo..(lo + 4)
        \/ R = {14, 2, 3, 4, 5}

(* C27: evaluate_hand on 5 to 7 cards returns StraightFlush only if one     *)
(* 5-card subset is at once five cards of one suit and a straight; a       *)
(* straight and a flush found in different subsets are no straight flush.  *)
C27_StraightFlushInOneSubset ==
    (phase = "Showdown" /\ Len(AllCards) \in 5..7) =>
        (Evaluation.rank = StraightFlush =>
            \E h \in FiveCardHands(AllCards) : OneSuit(h) /\ RanksInARow(h))

\* a flush and a straight in different subsets, evaluated as a flush
C27_Witness ==
    /\ phase = "Showdown"
    /\ Len(AllCards) \in 6..7
    /\ \E h \in FiveCardHands(AllCards) : OneSuit(h)
    /\ \E h \in FiveCardHands(AllCards) : RanksInARow(h)
    /\ ~\E h \in FiveCardHands(AllCards) : OneSuit(h) /\ RanksInARow(h)
    /\ Evaluation.rank = Flush

\* the cards of a sequence in one fixed order: by rank, then by suit
Canonical(cards) ==
    LET SuitIndex(c) == CHOOSE s \in 1..4 : Suits[s] = c.suit
        keys == SetDesc({4 * cards[i].rank + SuitIndex(cards[i]) - 1 :
                            i \in 1..Len(cards)})
    IN  [k \in 1..Len(keys) |-> Card(keys[k] \div 4, Suits[(keys[k] % 4) + 1])]

(* C28: evaluate_hand is deterministic and independent of the order of     *)
(* the cards: every ordering of a set of 0 to 7 cards, split in any way    *)
(* into hole cards and board, gets the same category and kicker sequence.  *)
C28_OrderIndependent ==
    phase = "Showdown" =>
        LET fixed == evaluate_hand(<<>>, Canonical(AllCards))
        IN  /\ Evaluation.rank = fixed.rank
            /\ Evaluation.kickers = fixed.kickers

\* seven cards in another order than the fixed one, two of them hole cards
C28_Witness ==
    /\ phase = "Showdown"
    /\ Len(player_cards) = 2
    /\ Len(board) = 5
    /\ AllCards # Canonical(AllCards)
    /\ AllCards[1].rank < AllCards[7].rank
    /\ Evaluation.rank = FullHouse

---------------------------------------------------------------------------
(* The deck tests (test_deck_has_52_cards, test_shuffle_resets_index): a   *)
(* fresh or shuffled deck is dealt from by deal and deal_n in any order,   *)
(* the cards returned are collected in board as advance_phase collects     *)
(* them, and a shuffle starts the collection again.                        *)

\* the most cards asked of deal_n at once (the flop asks for 3)
MaxDealN == 3

InitDeck ==
    \E d \in {DeckNew} \cup {shuffle(DeckNew, i) : i \in 1..NumShuffles} :
        InState([GameStateNew(TestStackBB, TRUE, 1) EXCEPT !.deck = d, !.board = <<>>])

NextDeck ==
    \/ Becomes([Self EXCEPT !.board = board \o deal(deck).card,
                            !.deck = deal(deck).deck])
    \/ \E n \in 2..MaxDealN :
          Becomes([Self EXCEPT !.board = board \o deal_n_cards(deck, n),
                              !.deck = deal_n_deck(deck, n)])
    \/ \E i \in 1..NumShuffles :
          /\ deck.index > 0
          /\ Becomes([Self EXCEPT !.board = <<>>, !.deck = shuffle(deck, i)])

SpecDeck == InitDeck /\ [][NextDeck]_vars

(* C29: the cards returned by deal and deal_n since the deck was created   *)
(* or last shuffled are pairwise distinct and 52 at most; once 52 are out  *)
(* deal returns none, deal_n returns fewer cards than asked for, and the   *)
(* deck stays as it is; so the cards of one hand are pairwise distinct.    *)
C29_DealtWithoutReplacement ==
    /\ Len(board) = deck.index
    /\ Len(board) <= 52
    /\ \A i, j \in 1..Len(board) : i # j => board[i] # board[j]
    /\ \A n \in 1..MaxDealN :
          Len(deal_n_cards(deck, n)) = IntMin(n, 52 - Len(board))
    /\ Len(board) = 52 =>
          /\ deal(deck) = [card |-> None, deck |-> deck]
          /\ \A n \in 1..MaxDealN :
                deal_n_cards(deck, n) = <<>> /\ deal_n_deck(deck, n) = deck

\* a shuffled deck dealt out, the last cards by a deal_n that came up short
C29_Witness ==
    /\ Len(board) = 52
    /\ deck.index = 52
    /\ deck.cards # DeckNew.cards
    /\ {board[i] : i \in 1..52} = {DeckNew.cards[k] : k \in 1..52}

---------------------------------------------------------------------------
(* C30: every hand of legal play ends without needing a fold: a player     *)
(* all-in for less than the opponent's street bet still lets the round     *)
(* complete, and no state is reachable in which the street bets can never  *)
(* become equal. Stated on states: while an action is awaited, the player  *)
(* whose street bet is the lower one still has chips to level it.          *)
C30_BetsCanLevel ==
    ActionAwaited =>
        /\ U32Lt(player_bet, bot_bet) => player_stack # 0
        /\ U32Lt(bot_bet, player_bet) => bot_stack # 0

---------------------------------------------------------------------------
(* The UI driver (ui/app.rs) and the loop of main.rs. An App value is the  *)
(* record of app with the GameState as its field game_state. The clock is  *)
(* left out: a timer that is set may or may not have run down when         *)
(* process_next_event looks at it. The display fields, the action log, the *)
(* statistics and the help and stats overlays are left out; an open        *)
(* overlay only keeps a key from reaching handle_key.                      *)

GameEvents == {"BotAction", "StartNewHand", "PostSmallBlind", "PostBigBlind",
               "RevealCards", "RevealShowdown", "ShowResult"}

\* the App of the current state
AppSelf ==
    [game_state |-> Self,
     pending_events |-> app.pending_events,
     next_event_at |-> app.next_event_at,
     showdown_result_shown |-> app.showdown_result_shown,
     visible_board_len |-> app.visible_board_len,
     starting_stack_bb |-> app.starting_stack_bb,
     last_phase |-> app.last_phase]

\* the next state holds the App a, the loop is at pc
AppBecomes(a, pc) ==
    /\ GameBecomes(a.game_state)
    /\ app' = [pending_events |-> a.pending_events,
               next_event_at |-> a.next_event_at,
               showdown_result_shown |-> a.showdown_result_shown,
               visible_board_len |-> a.visible_board_len,
               starting_stack_bb |-> a.starting_stack_bb,
               last_phase |-> a.last_phase]
    /\ loop_pc' = pc

\* pending_events.push_back(event) with next_event_at set
PushEvent(a, event) ==
    [a EXCEPT !.pending_events = Append(@, event),
              !.next_event_at = Some("Instant")]

is_player_turn(s) ==
    /\ s.to_act = "Human"
    /\ s.phase \notin {"Showdown", "HandComplete", "SessionEnd", "Summary"}

\* enqueue_next_events that does not look at the queue first
enqueue_next_events_NoGuard(a) ==
    LET g == a.game_state
        phase_changed == g.phase # a.last_phase
        b == [a EXCEPT !.last_phase = g.phase]
    IN  IF g.phase = "HandComplete"
          THEN IF g.player_stack # 0 /\ g.bot_stack # 0
                 THEN PushEvent(b, "StartNewHand")
                 ELSE b
        ELSE IF g.phase = "Showdown" THEN PushEvent(b, "RevealShowdown")
        ELSE IF g.phase \in {"SessionEnd", "Summary"} THEN b
        ELSE IF phase_changed /\ a.visible_board_len < Len(g.board)
          THEN PushEvent(b, "RevealCards")
        ELSE IF g.to_act = "Bot" THEN PushEvent(b, "BotAction")
        ELSE b

\* enqueue_next_events that starts a new hand when it is the bot's turn
enqueue_next_events_NewHandForBot(a) ==
    LET g == a.game_state
        phase_changed == g.phase # a.last_phase
        b == [a EXCEPT !.last_phase = g.phase]
    IN  IF a.pending_events # <<>> THEN a
        ELSE IF g.phase = "HandComplete"
          THEN IF g.player_stack # 0 /\ g.bot_stack # 0
                 THEN PushEvent(b, "StartNewHand")
                 ELSE b
        ELSE IF g.phase = "Showdown" THEN PushEvent(b, "RevealShowdown")
        ELSE IF g.phase \in {"SessionEnd", "Summary"} THEN b
        ELSE IF phase_changed /\ a.visible_board_len < Len(g.board)
          THEN PushEvent(b, "RevealCards")
        ELSE IF g.to_act = "Bot" THEN PushEvent(b, "StartNewHand")
        ELSE b

enqueue_next_events(a) ==
    LET g == a.game_state
        phase_changed == g.phase # a.last_phase
        b == [a EXCEPT !.last_phase = g.phase]
    IN  IF a.pending_events # <<>> THEN a
        ELSE IF g.phase = "HandComplete"
          THEN IF g.player_stack # 0 /\ g.bot_stack # 0
                 THEN PushEvent(b, "StartNewHand")
                 ELSE b
        ELSE IF g.phase = "Showdown" THEN PushEvent(b, "RevealShowdown")
        ELSE IF g.phase \in {"SessionEnd", "Summary"} THEN b
        ELSE IF phase_changed /\ a.visible_board_len < Len(g.board)
          THEN PushEvent(b, "RevealCards")
        ELSE IF g.to_act = "Bot" THEN PushEvent(b, "BotAction")
        ELSE b

\* App::initialize
initialize(a) == PushEvent(a, "PostSmallBlind")

\* App::new followed by App::initialize, as main does
AppStart(starting_stack_bb, checks, i) ==
    initialize([game_state |-> GameStateNew(starting_stack_bb, checks, i)]
                 @@ AppNew(starting_stack_bb))

\* App::new_session; i is the deck order of the new game's shuffle
new_session(a, i) ==
    AppStart(a.starting_stack_bb, a.game_state.overflow_checks, i)

apply_player_action(a, action) ==
    LET AfterAction(g) ==
            IF g.panicked THEN [a EXCEPT !.game_state = g]
            ELSE enqueue_next_events([a EXCEPT !.game_state = g])
    IN  IF ~is_player_turn(a.game_state) THEN a
        ELSE AfterAction(apply_action(a.game_state, "Human", action))

\* process_next_event: due says whether the timer has run down, bot_action
\* is what bot.decide returns, i the deck order of a new hand's shuffle
process_next_event(a, due, bot_action, i) ==
    LET event == Head(a.pending_events)
        popped == [a EXCEPT !.pending_events = Tail(@)]
        cleared == [popped EXCEPT !.next_event_at = None]
        Acted(g) ==
            IF g.panicked THEN [popped EXCEPT !.game_state = g]
            ELSE enqueue_next_events([cleared EXCEPT !.game_state = g])
        Dealt(g) ==
            PushEvent([popped EXCEPT !.showdown_result_shown = FALSE,
                                     !.game_state = g,
                                     !.visible_board_len = 0,
                                     !.last_phase = g.phase],
                      "PostSmallBlind")
    IN  IF a.next_event_at = None \/ ~due THEN a
        ELSE IF a.pending_events = <<>> THEN [a EXCEPT !.next_event_at = None]
        ELSE IF event = "BotAction"
          THEN Acted(apply_action(a.game_state, "Bot", bot_action))
        ELSE IF event = "StartNewHand"
          THEN Dealt(start_new_hand(a.game_state, i))
        ELSE IF event = "PostSmallBlind" THEN PushEvent(popped, "PostBigBlind")
        ELSE IF event = "PostBigBlind" THEN enqueue_next_events(cleared)
        ELSE IF event = "RevealCards"
          THEN LET shown == [popped EXCEPT
                                !.visible_board_len = Len(a.game_state.board)]
               IN  IF a.game_state.to_act = "Bot" THEN PushEvent(shown, "BotAction")
                   ELSE enqueue_next_events([shown EXCEPT !.next_event_at = None])
        ELSE IF event = "RevealShowdown" THEN PushEvent(popped, "ShowResult")
        ELSE [cleared EXCEPT !.showdown_result_shown = TRUE]

continue_after_showdown(a) ==
    LET g == a.game_state
        emptied == [a EXCEPT !.pending_events = <<>>]
    IN  IF ~(g.phase = "Showdown" /\ a.showdown_result_shown) THEN a
        ELSE IF g.player_stack # 0 /\ g.bot_stack # 0
          THEN PushEvent(emptied, "StartNewHand")
        ELSE [emptied EXCEPT !.game_state.phase = "SessionEnd",
                             !.next_event_at = None]

\* the keys run_game_loop tells apart; Other stands for every other key,
\* the gameplay keys of handle_key among them, None for no key polled
Keys == {"None", "Quit", "New", "CtrlC", "Other"}

\* the key handling that passes gameplay keys on while an event is pending
handle_input_IgnoresPending(a, key, action, i) ==
    LET g == a.game_state
        on == [app |-> a, running |-> TRUE]
        break == [app |-> a, running |-> FALSE]
        summary == [app |-> [a EXCEPT !.game_state.phase = "Summary"], running |-> TRUE]
    IN  IF key = "None" THEN on
        ELSE IF g.phase = "Showdown"
          THEN IF key = "Quit" THEN summary
               ELSE [app |-> continue_after_showdown(a), running |-> TRUE]
        ELSE IF g.phase \in {"Summary", "SessionEnd"}
          THEN IF key = "Quit" THEN break
               ELSE IF key = "New"
                 THEN IF g.phase = "SessionEnd"
                        THEN [app |-> new_session(a, i), running |-> TRUE]
                        ELSE on
               ELSE IF g.phase = "Summary" THEN break ELSE on
        ELSE IF key = "CtrlC" THEN break
        ELSE IF key = "Quit" THEN summary
        ELSE IF is_player_turn(g) /\ IsSome(action)
          THEN [app |-> apply_player_action(a, Unwrap(action)), running |-> TRUE]
        ELSE on

\* run_game_loop, the key handling of one iteration: the App afterwards and
\* whether the loop goes on; action is what handle_key makes of the key
handle_input(a, key, action, i) ==
    LET g == a.game_state
        on == [app |-> a, running |-> TRUE]
        break == [app |-> a, running |-> FALSE]
        summary == [app |-> [a EXCEPT !.game_state.phase = "Summary"], running |-> TRUE]
    IN  IF key = "None" THEN on
        ELSE IF g.phase = "Showdown"
          THEN IF key = "Quit" THEN summary
               ELSE [app |-> continue_after_showdown(a), running |-> TRUE]
        ELSE IF g.phase \in {"Summary", "SessionEnd"}
          THEN IF key = "Quit" THEN break
               ELSE IF key = "New"
                 THEN IF g.phase = "SessionEnd"
                        THEN [app |-> new_session(a, i), running |-> TRUE]
                        ELSE on
               ELSE IF g.phase = "Summary" THEN break ELSE on
        ELSE IF key = "CtrlC" THEN break
        ELSE IF key = "Quit" THEN summary
        ELSE IF a.pending_events = <<>> /\ is_player_turn(g) /\ IsSome(action)
          THEN [app |-> apply_player_action(a, Unwrap(action)), running |-> TRUE]
        ELSE on

\* run_game_loop, the end of an iteration: a busted stack ends the session
session_end_check(a) ==
    LET g == a.game_state
    IN  IF /\ g.phase \notin {"SessionEnd", "Summary"}
           /\ (g.player_stack = 0 \/ g.bot_stack = 0)
          THEN [a EXCEPT !.game_state.phase = "SessionEnd"]
          ELSE a

\* the actions the keys and the bot are tried with: every offered kind, a
\* bet or raise at its offered minimum
DriverActions(s) ==
    LET av == available_actions(s)
    IN  {x \in LegalActions(s) :
            /\ x.kind = "Bet" => x.amount = Unwrap(av.min_bet)
            /\ x.kind = "Raise" => x.amount = Unwrap(av.min_raise)}

\* main: App::new, App::initialize, then the loop
InitApp ==
    \E bb \in 1..MaxStackBB, checks \in BOOLEAN, i \in 1..NumShuffles :
        LET a == AppStart(bb, checks, i)
        IN  /\ GameIs(a.game_state)
            /\ app = [f \in DOMAIN AppNew(bb) |-> a[f]]
            /\ loop_pc = "events"

\* app.process_next_event(stats_store)
ProcessEvents ==
    /\ ~panicked
    /\ loop_pc = "events"
    /\ LET event == IF app.pending_events = <<>> THEN "None"
                     ELSE Head(app.pending_events)
       IN  \E due \in BOOLEAN,
              i \in IF event = "StartNewHand" THEN 1..NumShuffles ELSE {1},
              bot_action \in IF event = "BotAction" THEN DriverActions(Self) ELSE {Fold} :
              /\ due =>
                    /\ event = "StartNewHand" => hand_number < MaxHands
                    /\ event = "BotAction" => actions_this_street < MaxStreetActions
              /\ AppBecomes(process_next_event(AppSelf, due, bot_action, i), "input")

\* event::poll and the match on the key, then the check for a busted stack
\* that ends the iteration
HandleInput ==
    /\ ~panicked
    /\ loop_pc = "input"
    /\ \E key \in Keys :
          \E i \in IF key = "New" THEN 1..NumShuffles ELSE {1},
             action \in IF key = "Other" /\ actions_this_street < MaxStreetActions
                        THEN {None} \cup {Some(x) : x \in DriverActions(Self)}
                        ELSE {None} :
              \E r \in {handle_input(AppSelf, key, action, i)} :
                  IF r.running THEN AppBecomes(session_end_check(r.app), "events")
                  ELSE AppBecomes(r.app, "exited")

NextApp == ProcessEvents \/ HandleInput

SpecApp == InitApp /\ [][NextApp]_vars

---------------------------------------------------------------------------
(* C31: the driver sets phase to SessionEnd only from a settled hand: the  *)
(* phase before was Showdown or HandComplete, the pot is 0 and one stack   *)
(* is 0; a hand with a player all-in that is not yet resolved by fold or   *)
(* showdown is never cut short by SessionEnd.                              *)
C31_SessionEndFromSettledHand ==
    [][(phase' = "SessionEnd" /\ phase # "SessionEnd") =>
          /\ phase \in {"Showdown", "HandComplete"}
          /\ pot = 0
          /\ (player_stack = 0 \/ bot_stack = 0)]_vars

\* the step has called apply_action: the call shows in the last action,
\* the street counter, the board, the showdown result or the hand count
EngineCalled ==
    /\ IsSome(last_action')
    /\ \/ last_action' # last_action
       \/ actions_this_street' # actions_this_street
       \/ board' # board
       \/ showdown_result' # showdown_result
       \/ hands_played' # hands_played

(* C32: under the UI driver every apply_action call is made for the player *)
(* equal to to_act at the moment of the call: the human's action is        *)
(* applied only when to_act is Human and no event is pending, a BotAction  *)
(* event is processed only while to_act is Bot.                            *)
C32_ActsInTurn ==
    [][/\ (/\ loop_pc = "events"
           /\ app.pending_events # <<>>
           /\ Head(app.pending_events) = "BotAction"
           /\ app' # app) => to_act = "Bot" /\ EngineCalled
       /\ EngineCalled =>
             /\ Unwrap(last_action')[1] = to_act
             /\ to_act = "Human" => loop_pc = "input" /\ app.pending_events = <<>>
             /\ to_act = "Bot" =>
                   /\ loop_pc = "events"
                   /\ app.pending_events = <<"BotAction">>]_vars

\* the human has acted, then the bot, and it is the human's turn again
C32_Witness ==
    /\ phase \in BettingPhases
    /\ LastActor = "Bot"
    /\ actions_this_street >= 2
    /\ to_act = "Human"
    /\ loop_pc = "input"
    /\ app.pending_events = <<>>

(* C33: pending_events holds at most one event in every reachable App      *)
(* state: enqueue_next_events adds nothing when an event is pending and    *)
(* at most one otherwise, and every handler of process_next_event pushes   *)
(* at most one follow-up after popping its own event.                      *)
C33_AtMostOnePending ==
    /\ Len(app.pending_events) <= 1
    /\ Len(enqueue_next_events(AppSelf).pending_events) <= 1
    /\ app.pending_events # <<>> => enqueue_next_events(AppSelf) = AppSelf
    /\ \A bot_action \in LegalActions(Self) :
          Len(process_next_event(AppSelf, TRUE, bot_action, 1).pending_events) <= 1

\* RevealCards has pushed its follow-up, the bot's action on the flop
C33_Witness ==
    /\ app.pending_events = <<"BotAction">>
    /\ phase = "Flop"
    /\ app.visible_board_len = 3
    /\ actions_this_street = 0
    /\ loop_pc = "input"

(* C34: Summary and SessionEnd are terminal for timed events: once phase   *)
(* is Summary or SessionEnd, processing a pending event changes neither    *)
(* the phase nor a stack, a street bet or the pot.                         *)
C34_TerminalForEvents ==
    [][(phase \in {"Summary", "SessionEnd"} /\ loop_pc = "events") =>
          /\ phase' = phase
          /\ player_stack' = player_stack
          /\ bot_stack' = bot_stack
          /\ player_bet' = player_bet
          /\ bot_bet' = bot_bet
          /\ pot' = pot]_vars

(* C35: under the UI driver start_new_hand is called (StartNewHand event)  *)
(* only when the previous hand is settled (pot 0) and both stacks are      *)
(* positive, so both players post a non-zero blind and the reset of the    *)
(* pot discards no chips.                                                  *)
C35_NewHandOnlyWhenSettled ==
    [][(loop_pc = "events" /\ NewHandStarted) =>
          /\ app.pending_events = <<"StartNewHand">>
          /\ pot = 0
          /\ player_stack # 0 /\ bot_stack # 0
          /\ player_bet' # 0 /\ bot_bet' # 0
          /\ player_stack' + bot_stack' + pot' = player_stack + bot_stack]_vars

\* the second hand has been started by the event
C35_Witness ==
    /\ hand_number = 2
    /\ phase = "Preflop"
    /\ app.pending_events = <<"PostSmallBlind">>
    /\ loop_pc = "input"
    /\ player_stack + bot_stack + pot = 2 * starting_stack


---------------------------------------------------------------------------
(* C36: start_new_hand preserves player_stack + bot_stack + pot in         *)
(* whatever phase it is called, also when the hand in progress is still in *)
(* a betting phase with chips in the pot, as when it is called twice in a  *)
(* row on a fresh state.                                                   *)
C36_NewHandKeepsChips ==
    [][NewHandStarted =>
          player_stack' + bot_stack' + pot' = player_stack + bot_stack + pot]_vars


---------------------------------------------------------------------------
(* C37: whenever an action completes a betting round (the street advances  *)
(* or the showdown is resolved), whatever actions and amounts were passed  *)
(* to apply_action since start_new_hand, the two street bets are equal and *)
(* the pot is even, each player having put exactly half of it in; the pot  *)
(* a showdown awards is therefore even and its odd chip is never paid.     *)
(* What each player has put in is read off the stacks in the first hand of *)
(* a session, which both players enter with starting_stack.                *)
C37_EvenPotAtRoundEnd ==
    [][(AppliedNonFold /\ RoundCompleted /\ ~panicked')
       => LET pot_at_test == pot + StepChips
          IN  /\ BetAtRoundTest("Human") = BetAtRoundTest("Bot")
              /\ pot_at_test % 2 = 0
              /\ hand_number = 1 =>
                    \A player \in Players :
                        starting_stack - StackAtSettlement(player)
                            = pot_at_test \div 2
              /\ Settled => /\ SettledPot = pot_at_test
                            /\ SettledPot % 2 = 0]_vars

\* a showdown reached with more than the blinds in the pot
C37_Witness ==
    /\ phase = "Showdown"
    /\ IsSome(showdown_result)
    /\ Unwrap(showdown_result).pot_won > 2 * BIG_BLIND
    /\ player_stack # bot_stack

---------------------------------------------------------------------------
(* apply_action called once the hand is over: the method has no guard on   *)
(* the phase, so a caller may pass any action for either player while the  *)
(* phase is Showdown or HandComplete. One hand is played as under          *)
(* SpecAnyAmount and such calls follow it.                                 *)

\* apply_action(player, a) in Showdown or HandComplete
LateApply ==
    /\ ~panicked
    /\ phase \in {"Showdown", "HandComplete"}
    /\ actions_this_street < MaxAnyStreetActions
    /\ hands_played < MaxHands
    /\ \E player \in Players, a \in AnyActions :
          Becomes(apply_action(Self, player, a))

NextLate == NextAnyAmount \/ LateApply

SpecLate == Init /\ [][NextLate]_vars

(* C38: apply_action called while the phase is Showdown or HandComplete    *)
(* changes neither stack, nor the pot, nor the counters hands_played and   *)
(* hands_won, whatever the kind and the amount of the action.              *)
C38_LateActionIsInert ==
    [][(phase \in {"Showdown", "HandComplete"})
       => UNCHANGED <<player_stack, bot_stack, pot, hands_played, hands_won>>]_vars

---------------------------------------------------------------------------
(* Showdowns between hands that share their primary ranks: a state set up  *)
(* as the split-pot test sets its state up, on the River with nothing bet, *)
(* with a board holding a pair, trips or two pair and hole cards that only *)
(* add side cards to it. The River is checked down.                        *)
InitSideCards ==
    \E b \in Players, n \in 1..3 :
        LET hole == <<Card(13, "Spades"), Card(12, "Hearts"), Card(11, "Diamonds"),
                      Card(8, "Clubs"), Card(3, "Spades"), Card(3, "Hearts")>>
            boards == <<
                <<Card(14, "Diamonds"), Card(14, "Clubs"), Card(9, "Clubs"),
                  Card(4, "Diamonds"), Card(2, "Hearts")>>,
                <<Card(14, "Diamonds"), Card(14, "Clubs"), Card(14, "Hearts"),
                  Card(9, "Clubs"), Card(4, "Diamonds")>>,
                <<Card(14, "Diamonds"), Card(14, "Clubs"), Card(9, "Clubs"),
                  Card(9, "Diamonds"), Card(2, "Hearts")>> >>
            s0 == GameStateNew(TestStackBB, TRUE, 1)
        IN  \E P \in SUBSET DOMAIN hole, B \in SUBSET DOMAIN hole :
                /\ Cardinality(P) = 2 /\ Cardinality(B) = 2 /\ P \cap B = {}
                /\ InState([s0 EXCEPT
                               !.player_cards = [k \in 1..2 |-> hole[SetDesc(P)[k]]],
                               !.bot_cards = [k \in 1..2 |-> hole[SetDesc(B)[k]]],
                               !.board = boards[n],
                               !.pot = 2 * BIG_BLIND,
                               !.player_stack = s0.starting_stack - BIG_BLIND,
                               !.bot_stack = s0.starting_stack - BIG_BLIND,
                               !.phase = "River",
                               !.player_bet = 0,
                               !.bot_bet = 0,
                               !.button = b,
                               !.to_act = opponent(b)])

SpecSideCards == InitSideCards /\ [][PassiveStep]_vars

(* C39: at a showdown the pot is split (winner none) only when the best    *)
(* five-card hands of the two players have the same category and the same  *)
(* multiset of ranks; when category and primary ranks tie and a side card  *)
(* differs (the same pair, trips or two pair with another highest side     *)
(* card), the player with the higher side card wins the whole pot.         *)
(* The hands are ranked as poker ranks them: by category, then by the      *)
(* ranks of the five cards, those of the larger groups first and the       *)
(* higher rank first within groups of one size; a straight by its high     *)
(* card.                                                                   *)
C39_SideCardsDecide ==
    [][Settled =>
        LET Ranking(h) ==
                LET e == evaluate_five(h)
                    weight == [k \in 1..5 |-> 15 * RankCount(h, h[k].rank) + h[k].rank]
                    sorted == SortDesc(weight)
                IN  HandEvaluation(e.rank,
                        IF e.rank \in {Straight, StraightFlush} THEN e.kickers
                        ELSE [k \in 1..5 |-> sorted[k] % 15])
            Best(cards) ==
                LET all == {Ranking(h) : h \in FiveCardHands(cards)}
                IN  CHOOSE b \in all : \A g \in all : EvalCmp(g, b) <= 0
            c == EvalCmp(Best(player_cards \o board'), Best(bot_cards \o board'))
            winner == Unwrap(showdown_result').winner
        IN  /\ c = 0 <=> winner = None
            /\ c = 1 <=> winner = Some("Human")
            /\ c = -1 <=> winner = Some("Bot")]_vars

=============================================================================
